---- MODULE Spec2Model ----
(***************************************************************************)
(* Verification model of the hyperliquid matching engine: the order book   *)
(* (OrderBook<PriceLevelsImpl>), its price ladders, the intrusive level    *)
(* FIFO, the slab pool of order nodes and the open-addressing order index. *)
(* Every command of the book is one atomic action; the book is threaded    *)
(* through operators that follow the C++ statement by statement.           *)
(***************************************************************************)
EXTENDS Integers, Sequences, FiniteSets, TLC

VARIABLES
  scenario,   \* the family of command streams this behaviour draws from
  book,       \* the OrderBook object: ladders, nodes, pool, id index
  last,       \* the last command handed to the book
  result,     \* what that command returned (ExecResult or bool)
  events,     \* callbacks invoked by that command, in invocation order
  ncmds,      \* number of commands processed so far
  issued,     \* number of NewOrder commands so far (each takes a fresh id)
  ledger,     \* running sums over the whole command sequence
  stamps,     \* the ts field of each of those events, in the same order
  twin,       \* a book on the tree ladder handed the same commands
  snap,       \* book before the latest NewOrder that rested without matching
  queue,      \* an SPSCQueue<int, N>: head_, tail_, buffer_
  producer,   \* the producer thread: where it is in push, its locals
  consumer,   \* the consumer thread: where it is in pop, its locals
  pushed,     \* the items whose push has stored the new tail_, in order
  popped,     \* the items whose pop has stored the new head_, in order
  threads,    \* main.cpp's threads: where each of them is
  pipe,       \* the input file, the two queues between the threads, the log
  heap        \* a SlabPool and the objects a caller holds from it

vars ==
  <<scenario, book, last, result, events, ncmds, issued, ledger, stamps, twin,
    snap, queue, producer, consumer, pushed, popped, threads, pipe, heap>>

bookvars ==
  <<scenario, book, last, result, events, ncmds, issued, ledger, stamps, twin,
    snap>>

ringvars == <<queue, producer, consumer, pushed, popped>>

procvars == <<threads, pipe>>

-----------------------------------------------------------------------------
(* Bounds of the exploration *)

\* commands per behaviour
MaxCmds == 4

-----------------------------------------------------------------------------
(* types.h *)

\* Sentinel::EMPTY_BID, numeric_limits<Tick>::min(); Tick (int64_t) is
\* modelled with 32-bit integers, the sentinel keeps its role as least tick.
EMPTY_BID == -2147483647

\* Sentinel::EMPTY_ASK, numeric_limits<Tick>::max()
EMPTY_ASK == 2147483647

\* Sentinel::INVALID_ORDER, also FlatMap's EmptyKey
INVALID_ORDER == 0

\* OrderFlags::STP = 1 << 2
STP == 4

Sides == {"Bid", "Ask"}

\* OrderFlags::ICEBERG = 1 << 3
ICEBERG == 8

\* OrderFlags::STOP = 1 << 4
STOP == 16

\* (flags & OrderFlags::STP) != 0
HasSTP(flags) == ((flags \div STP) % 2) = 1

\* nullptr of OrderNode*
NullNode == 0

\* nullptr of LevelFIFO* (a level pointer is <<tick>> of the level it names)
NullLevel == <<>>

Min2(a, b) == IF a < b THEN a ELSE b

-----------------------------------------------------------------------------
(* flat_map.h : FlatMap<OrderId, OrderEntry>                                *)
(* A map is [entries, capacity, size]; entries is a function from the       *)
(* occupied slots (key # EmptyKey) to [key, value].                         *)

\* FlatMap::hash, the 64-bit mixer, tabulated for the order ids the command
\* streams use (low 20 bits of the mixer's result; the table index is
\* hash & (capacity - 1) with capacity a power of two <= 2^20).
hash(k) ==
  CASE k = 1 -> 183084
    [] k = 2 -> 426983
    [] k = 3 -> 579790
    [] k = 4 -> 6261
    [] k = 5 -> 808309
    [] k = 6 -> 804211
    [] k = 5501 -> 229376
    [] k = 8798 -> 1007615

\* hash(key) & buf_mask
SlotOf(m, k) == hash(k) % m.capacity

Occupied(m, idx) == idx \in DOMAIN m.entries

RECURSIVE FindProbe(_, _, _, _)
FindProbe(m, key, idx, probes) ==
  IF ~Occupied(m, idx) THEN -1
  ELSE IF m.entries[idx].key = key THEN idx
  ELSE IF probes + 1 > m.capacity THEN -1
  ELSE FindProbe(m, key, (idx + 1) % m.capacity, probes + 1)

\* FlatMap::find: the slot holding key, -1 for nullptr
find(m, key) ==
  IF key = INVALID_ORDER THEN -1
  ELSE FindProbe(m, key, SlotOf(m, key), 0)

RECURSIVE InsertProbe(_, _, _, _)
InsertProbe(m, key, val, idx) ==
  IF ~Occupied(m, idx)
    THEN [m EXCEPT !.entries = (idx :> [key |-> key, value |-> val]) @@ @,
                   !.size = @ + 1]
  ELSE IF m.entries[idx].key = key
    THEN [m EXCEPT !.entries[idx].value = val]
  ELSE InsertProbe(m, key, val, (idx + 1) % m.capacity)

\* FlatMap::insert_internal
insert_internal(m, key, val) == InsertProbe(m, key, val, SlotOf(m, key))

RECURSIVE Reinsert(_, _, _)
Reinsert(m, old, slots) ==
  IF slots = {} THEN m
  ELSE LET s == CHOOSE x \in slots : \A y \in slots : x <= y
       IN Reinsert(insert_internal(m, old[s].key, old[s].value), old,
                   slots \ {s})

\* FlatMap::resize: rehash the old entries in slot order
resize(m, new_cap) ==
  Reinsert([entries |-> <<>>, capacity |-> new_cap, size |-> 0],
           m.entries, DOMAIN m.entries)

\* FlatMap::insert: size_ >= capacity_ * 0.7 doubles the table first
insert(m, key, val) ==
  IF 10 * m.size >= 7 * m.capacity
    THEN insert_internal(resize(m, m.capacity * 2), key, val)
    ELSE insert_internal(m, key, val)

\* entries_[i].key = EmptyKey
ClearSlot(entries, i) == [s \in DOMAIN entries \ {i} |-> entries[s]]

RECURSIVE ShiftBack(_, _, _)
\* the backward-shift loop of FlatMap::erase
ShiftBack(m, idx, probe_idx) ==
  IF ~Occupied(m, probe_idx) THEN m
  ELSE LET probe_entry == m.entries[probe_idx]
           desired_idx == SlotOf(m, probe_entry.key)
           wrapped     == probe_idx < idx
           can_move    == IF ~wrapped
                            THEN (desired_idx <= idx) \/ (desired_idx > probe_idx)
                            ELSE (desired_idx <= idx) \/ (desired_idx > probe_idx)
           next_probe  == (probe_idx + 1) % m.capacity
       IN IF can_move
            THEN ShiftBack(
                   [m EXCEPT !.entries =
                      (idx :> probe_entry) @@ ClearSlot(@, probe_idx)],
                   probe_idx, next_probe)
            ELSE ShiftBack(m, idx, next_probe)

RECURSIVE EraseProbe(_, _, _)
EraseProbe(m, key, idx) ==
  IF ~Occupied(m, idx) THEN m
  ELSE IF m.entries[idx].key = key
    THEN ShiftBack([m EXCEPT !.entries = ClearSlot(@, idx), !.size = @ - 1],
                   idx, (idx + 1) % m.capacity)
  ELSE EraseProbe(m, key, (idx + 1) % m.capacity)

\* FlatMap::erase
erase_key(m, key) == EraseProbe(m, key, SlotOf(m, key))

\* FlatMap::FlatMap(initial_capacity): the least power of two >= 16 holding it
RECURSIVE GrowCap(_, _)
GrowCap(cap, initial_capacity) ==
  IF cap < initial_capacity THEN GrowCap(cap * 2, initial_capacity) ELSE cap

NewFlatMap(initial_capacity) ==
  [entries |-> <<>>, capacity |-> GrowCap(16, initial_capacity), size |-> 0]

-----------------------------------------------------------------------------
(* mempool.h : SlabPool<OrderNode>                                          *)
(* The free list is kept as the stack of released addresses (recycled, top  *)
(* first) followed by the never yet handed out objects fresh_hi, fresh_hi-1,*)
(* ..., fresh_lo: add_slab pushes a slab's objects in ascending order, so   *)
(* the untouched part of the list is always one descending run.             *)

\* SLAB_SIZE / sizeof(OrderNode) = (1 << 20) / 96
SLAB_OBJECTS == 10922

FreeListEmpty(p) == p.recycled = <<>> /\ p.fresh_hi < p.fresh_lo

\* SlabPool::add_slab (called with no released object on the list)
add_slab(p) ==
  [p EXCEPT !.fresh_lo = IF p.fresh_hi < p.fresh_lo THEN p.capacity + 1 ELSE @,
            !.fresh_hi = p.capacity + p.slab_objects,
            !.capacity = @ + p.slab_objects,
            !.num_slabs = @ + 1]

RECURSIVE AddSlabs(_, _)
AddSlabs(p, n) == IF n = 0 THEN p ELSE AddSlabs(add_slab(p), n - 1)

\* SlabPool::SlabPool(initial_slabs)
NewSlabPool(slab_objects, initial_slabs) ==
  AddSlabs([recycled |-> <<>>, fresh_hi |-> 0, fresh_lo |-> 1, capacity |-> 0,
            in_use |-> 0, num_slabs |-> 0, slab_objects |-> slab_objects],
           initial_slabs)

\* an alloc that leaves a released object at the head of the free list
pool_alloc_keep(p) ==
  LET q == IF FreeListEmpty(p) THEN add_slab(p) ELSE p
  IN IF q.recycled # <<>>
       THEN [pool |-> [q EXCEPT !.in_use = @ + 1],
             ptr  |-> Head(q.recycled)]
       ELSE [pool |-> [q EXCEPT !.fresh_hi = @ - 1, !.in_use = @ + 1],
             ptr  |-> q.fresh_hi]

\* SlabPool::alloc: [pool, ptr]
pool_alloc(p) ==
  LET q == IF FreeListEmpty(p) THEN add_slab(p) ELSE p
  IN IF q.recycled # <<>>
       THEN [pool |-> [q EXCEPT !.recycled = Tail(@), !.in_use = @ + 1],
             ptr  |-> Head(q.recycled)]
       ELSE [pool |-> [q EXCEPT !.fresh_hi = @ - 1, !.in_use = @ + 1],
             ptr  |-> q.fresh_hi]

\* SlabPool::free
pool_free(p, ptr) ==
  [p EXCEPT !.recycled = <<ptr>> \o @, !.in_use = @ - 1]

\* objects per slab of the pool driven on its own, in place of
\* SLAB_SIZE / sizeof(TestObject)
PoolSlabObjects == 2

\* SlabPool<TestObject> pool(1)
PoolSlabs == 1

\* alloc calls per behaviour of the pool driven on its own
MaxAllocs == 6

\* test_mempool.cpp: a pool, the objects handed out and not yet given back,
\* the last call with the pointer it returned or was given, and the number
\* of alloc and free calls so far
NewHeap ==
  [pool |-> NewSlabPool(PoolSlabObjects, PoolSlabs), live |-> {},
   op |-> "none", ptr |-> NullNode, allocs |-> 0, frees |-> 0]

-----------------------------------------------------------------------------
(* order.h : OrderNode and LevelFIFO.  book.nodes maps the addresses of the *)
(* allocated nodes to their fields; a level is [head, tail, total_qty] and  *)
(* is named by its side and tick.                                           *)

EmptyLevel == [head |-> NullNode, tail |-> NullNode, total_qty |-> 0]

Level(b, s, px) == b.lad[s].levels[px]

\* LevelFIFO::empty
level_empty(lv) == lv.head = NullNode

\* enqueue gone wrong: the new node linked in front of the head
enqueue_at_head(b, s, px, node) ==
  LET lv == Level(b, s, px)
      n1 == [b.nodes EXCEPT ![node].prev = NullNode, ![node].next = lv.head]
      n2 == IF lv.head # NullNode
              THEN [n1 EXCEPT ![lv.head].prev = node] ELSE n1
      lv2 == [head      |-> node,
              tail      |-> IF lv.head # NullNode THEN lv.tail ELSE node,
              total_qty |-> lv.total_qty + n2[node].qty]
  IN [b EXCEPT !.nodes = n2, !.lad[s].levels[px] = lv2]

\* LevelFIFO::enqueue
enqueue(b, s, px, node) ==
  LET lv == Level(b, s, px)
      n1 == [b.nodes EXCEPT ![node].next = NullNode, ![node].prev = lv.tail]
      n2 == IF lv.tail # NullNode
              THEN [n1 EXCEPT ![lv.tail].next = node] ELSE n1
      lv2 == [head      |-> IF lv.tail # NullNode THEN lv.head ELSE node,
              tail      |-> node,
              total_qty |-> lv.total_qty + n2[node].qty]
  IN [b EXCEPT !.nodes = n2, !.lad[s].levels[px] = lv2]

\* erase gone wrong: the node unlinked, total_qty left as it was
erase_keep_total(b, s, px, node) ==
  LET lv == Level(b, s, px)
      nd == b.nodes[node]
      n1 == IF nd.prev # NullNode
              THEN [b.nodes EXCEPT ![nd.prev].next = nd.next] ELSE b.nodes
      n2 == IF nd.next # NullNode
              THEN [n1 EXCEPT ![nd.next].prev = nd.prev] ELSE n1
      n3 == [n2 EXCEPT ![node].prev = NullNode, ![node].next = NullNode]
      lv2 == [head      |-> IF nd.prev # NullNode THEN lv.head ELSE nd.next,
              tail      |-> IF nd.next # NullNode THEN lv.tail ELSE nd.prev,
              total_qty |-> lv.total_qty]
  IN [b EXCEPT !.nodes = n3, !.lad[s].levels[px] = lv2]

\* LevelFIFO::erase
erase(b, s, px, node) ==
  LET lv == Level(b, s, px)
      nd == b.nodes[node]
      n1 == IF nd.prev # NullNode
              THEN [b.nodes EXCEPT ![nd.prev].next = nd.next] ELSE b.nodes
      n2 == IF nd.next # NullNode
              THEN [n1 EXCEPT ![nd.next].prev = nd.prev] ELSE n1
      n3 == [n2 EXCEPT ![node].prev = NullNode, ![node].next = NullNode]
      lv2 == [head      |-> IF nd.prev # NullNode THEN lv.head ELSE nd.next,
              tail      |-> IF nd.next # NullNode THEN lv.tail ELSE nd.prev,
              total_qty |-> lv.total_qty - nd.qty]
  IN [b EXCEPT !.nodes = n3, !.lad[s].levels[px] = lv2]

\* reduce_qty gone wrong: total_qty reduced, the node's qty left as it was
reduce_qty_level_only(b, s, px, node, reduction) ==
  [b EXCEPT !.lad[s].levels[px].total_qty = @ - reduction]

\* LevelFIFO::reduce_qty
reduce_qty(b, s, px, node, reduction) ==
  [b EXCEPT !.nodes[node].qty = @ - reduction,
            !.lad[s].levels[px].total_qty = @ - reduction]

-----------------------------------------------------------------------------
(* price_levels_array.h, price_levels_avl.h : the two ladders.  A ladder is *)
(* [levels, best, best_ptr]; levels is a function from the ticks that have  *)
(* a level object (every modelled tick of the band for the array, the keys  *)
(* of the std::map for the tree) to LevelFIFO.  The bid ladder uses only    *)
(* its best_bid_ fields and the ask ladder only its best_ask_ fields.       *)

SentinelOf(s) == IF s = "Bid" THEN EMPTY_BID ELSE EMPTY_ASK

\* PriceLevelsArray::is_valid_price / PriceLevelsAVL::is_valid_price
is_valid_price(b, px) ==
  IF b.impl = "Array"
    THEN px >= b.band.min_tick /\ px <= b.band.max_tick
    ELSE px > EMPTY_BID /\ px < EMPTY_ASK

\* PriceLevelsArray::idx with a tick outside the band: the assert stops the
\* process where asserts are compiled in; with NDEBUG the index runs off the
\* vector, and the access either kills the process or goes through to the
\* memory beyond it, which then serves as the level (read as empty here)
idx_out_of_band(b, s, px) ==
  IF b.build = "ndebug_slot"
    THEN [b EXCEPT !.lad[s].levels = (px :> EmptyLevel) @@ @,
                   !.fault = "oob"]
    ELSE [b EXCEPT !.fault = "abort"]

\* get_level: the array indexes its vector, the tree's operator[] inserts an
\* empty level for a missing key.  Returns the book (the level is then
\* Level(b, s, px)).
get_level(b, s, px) ==
  IF b.impl = "AVL" /\ px \notin DOMAIN b.lad[s].levels
    THEN [b EXCEPT !.lad[s].levels = (px :> EmptyLevel) @@ @]
  ELSE IF /\ b.impl = "Array"
          /\ ~is_valid_price(b, px)
          /\ px \notin DOMAIN b.lad[s].levels
    THEN idx_out_of_band(b, s, px)
    ELSE b

\* has_level of a tree ladder that only looks the key up
has_level_by_key(b, s, px) ==
  IF b.impl = "Array"
    THEN ~level_empty(Level(b, s, px))
    ELSE px \in DOMAIN b.lad[s].levels

\* has_level
has_level(b, s, px) ==
  IF b.impl = "Array"
    THEN ~level_empty(Level(b, s, px))
    ELSE px \in DOMAIN b.lad[s].levels /\ ~level_empty(Level(b, s, px))

\* best_bid() / best_ask()
best(b, s) == b.lad[s].best

\* best_level_ptr(Side)
best_level_ptr(b, s) == b.lad[s].best_ptr

\* a set_best that stores the tick and leaves the level reference as it was
set_best_tick_only(b, s, px) == [b EXCEPT !.lad[s].best = px]

\* set_best_bid / set_best_ask
set_best(b, s, px) ==
  [b EXCEPT !.lad[s].best = px,
            !.lad[s].best_ptr =
               IF px = SentinelOf(s) THEN NullLevel
               ELSE IF b.impl = "Array" THEN <<px>>
               ELSE IF px \in DOMAIN b.lad[s].levels THEN <<px>>
               ELSE NullLevel]

NewLadder(s, ticks) ==
  [levels   |-> [px \in ticks |-> EmptyLevel],
   best     |-> SentinelOf(s),
   best_ptr |-> NullLevel]

-----------------------------------------------------------------------------
(* order_book.h : OrderBook<PriceLevelsImpl>.  The book is                  *)
(* [impl, band, lad, nodes, pool, index]; both callbacks are set, as        *)
(* MatchingEngine's constructor does.  Every operation returns the book it  *)
(* leaves together with its return value and the callbacks it invoked.      *)

\* MAX_SEARCH of refresh_best_after_depletion
MAX_SEARCH == 10000

\* MAX_STEPS of check_fok_liquidity
MAX_STEPS == 10000

\* id_index_{8192}
INDEX_CAPACITY == 8192

\* order_pool_(2)
INITIAL_SLABS == 2

Opposite(s) == IF s = "Bid" THEN "Ask" ELSE "Bid"

\* OrderBook::OrderBook over the level objects of the modelled ticks
NewOrderBook(impl, band, ticks) ==
  [impl  |-> impl,
   band  |-> band,
   lad   |-> [s \in Sides |->
                NewLadder(s, IF impl = "Array"
                               THEN {px \in ticks : px >= band.min_tick
                                                    /\ px <= band.max_tick}
                               ELSE {})],
   nodes |-> <<>>,
   pool  |-> NewSlabPool(SLAB_OBJECTS, INITIAL_SLABS),
   index |-> NewFlatMap(INDEX_CAPACITY),
   build |-> "assert",
   fault |-> "none"]

\* OrderBook::alloc_node: [b, node]; the raw object's fields hold no value
\* until the caller stores them (0 stands for the unread garbage)
alloc_node(b) ==
  LET r == pool_alloc(b.pool)
  IN [b    |-> [b EXCEPT !.pool = r.pool,
                         !.nodes = (r.ptr :> [id |-> 0, user |-> 0, qty |-> 0,
                                              ts |-> 0,
                                              flags |-> 0, prev |-> NullNode,
                                              next |-> NullNode,
                                              alloc_kind |-> 1]) @@ @],
      node |-> r.ptr]

\* OrderBook::free_node: the object's storage is gone either way
free_node(b, node) ==
  LET rest == [a \in DOMAIN b.nodes \ {node} |-> b.nodes[a]]
  IN IF b.nodes[node].alloc_kind = 1
       THEN [b EXCEPT !.pool = pool_free(@, node), !.nodes = rest]
       ELSE [b EXCEPT !.nodes = rest]

\* a TradeEvent initialised with the two ids in each other's place
TradeEventSwapped(taker_id, maker_id, px, q) ==
  [type |-> "Trade", taker_id |-> maker_id, maker_id |-> taker_id,
   price_ticks |-> px, qty |-> q]

\* TradeEvent{ts, taker_id, maker->id, symbol_id_, best_price, match_qty}
TradeEvent(taker_id, maker_id, px, q) ==
  [type |-> "Trade", taker_id |-> taker_id, maker_id |-> maker_id,
   price_ticks |-> px, qty |-> q]

\* OrderBook::emit_book_update: [b, ev]
emit_book_update(b) ==
  LET best_bid_px == best(b, "Bid")
      best_ask_px == best(b, "Ask")
      b1 == IF best_bid_px # EMPTY_BID
              THEN get_level(b, "Bid", best_bid_px) ELSE b
      bid_qty == IF best_bid_px # EMPTY_BID
                   THEN Level(b1, "Bid", best_bid_px).total_qty ELSE 0
      b2 == IF best_ask_px # EMPTY_ASK
              THEN get_level(b1, "Ask", best_ask_px) ELSE b1
      ask_qty == IF best_ask_px # EMPTY_ASK
                   THEN Level(b2, "Ask", best_ask_px).total_qty ELSE 0
  IN [b  |-> b2,
      ev |-> <<[type |-> "BookUpdate", best_bid |-> best_bid_px,
                best_ask |-> best_ask_px, bid_qty |-> bid_qty,
                ask_qty |-> ask_qty]>>]

\* The ticks the search loop of refresh_best_after_depletion would stop at:
\* px = current_best -/+ i for 1 <= i <= MAX_SEARCH, not past the sentinel,
\* with every tick on the way valid (valid ticks form an interval in both
\* ladders), holding a non-empty level.  Ticks without a modelled level
\* object hold no order.
SearchHits(b, s, current_best) ==
  {px \in DOMAIN b.lad[s].levels :
     /\ IF s = "Bid"
          THEN px < current_best /\ current_best - px <= MAX_SEARCH
               /\ px > EMPTY_BID /\ is_valid_price(b, current_best - 1)
          ELSE px > current_best /\ px - current_best <= MAX_SEARCH
               /\ px < EMPTY_ASK /\ is_valid_price(b, current_best + 1)
     /\ is_valid_price(b, px)
     /\ has_level(b, s, px)}

\* the end of the search: the nearest hit becomes the best, the sentinel
\* when the loop found none
RefreshTo(b, s, hits) ==
  IF hits # {}
    THEN set_best(b, s,
           IF s = "Bid"
             THEN CHOOSE px \in hits : \A q \in hits : q <= px
             ELSE CHOOSE px \in hits : \A q \in hits : q >= px)
    ELSE set_best(b, s, SentinelOf(s))

\* OrderBook::refresh_best_after_depletion
refresh_best_after_depletion(b, s) ==
  IF best(b, s) = SentinelOf(s) THEN b
  ELSE RefreshTo(b, s, SearchHits(b, s, best(b, s)))

RECURSIVE FokWalk(_, _, _, _, _)
\* the walk of check_fok_liquidity over the levels it can reach, nearest
\* first, until available >= qty
FokWalk(b, opp, ticks, available, qty) ==
  IF available >= qty \/ ticks = {} THEN available
  ELSE LET px == IF opp = "Ask"
                   THEN CHOOSE x \in ticks : \A y \in ticks : x <= y
                   ELSE CHOOSE x \in ticks : \A y \in ticks : x >= y
       IN FokWalk(b, opp, ticks \ {px},
                  available + Level(b, opp, px).total_qty, qty)

\* a precheck that lets every FOK order through
check_fok_liquidity_passes(b, side, qty, px_limit) == TRUE

\* OrderBook::check_fok_liquidity<IsBid>; IsBid is side = "Bid"
check_fok_liquidity(b, side, qty, px_limit) ==
  LET opp == Opposite(side)
      best_price == best(b, opp)
      reach == {px \in DOMAIN b.lad[opp].levels :
                  /\ IF side = "Bid"
                       THEN px >= best_price /\ px <= px_limit
                            /\ px # EMPTY_ASK /\ px - best_price < MAX_STEPS
                       ELSE px <= best_price /\ px >= px_limit
                            /\ px # EMPTY_BID /\ best_price - px < MAX_STEPS
                  /\ is_valid_price(b, best_price)
                  /\ is_valid_price(b, px)
                  /\ has_level(b, opp, px)}
  IN IF side = "Bid" /\ (best_price = EMPTY_ASK \/ best_price > px_limit)
       THEN FALSE
     ELSE IF side = "Ask" /\ (best_price = EMPTY_BID \/ best_price < px_limit)
       THEN FALSE
     ELSE FokWalk(b, opp, reach, 0, qty) >= qty

RECURSIVE MatchMakers(_, _, _, _, _, _, _, _)
\* the inner loop of match_against_side over the makers of the best level;
\* st is [b, qty, total_filled, ev]
MatchMakers(st, s, level_px, best_price, maker, taker_id, taker_user, stp) ==
  IF maker = NullNode \/ st.qty <= 0 THEN st
  ELSE LET mk == st.b.nodes[maker]
       IN IF stp /\ mk.user = taker_user
            THEN MatchMakers(st, s, level_px, best_price, mk.next, taker_id,
                             taker_user, stp)
            ELSE LET match_qty == Min2(st.qty, mk.qty)
                     b1 == IF match_qty >= mk.qty
                             THEN LET e1 == erase(st.b, s, level_px, maker)
                                      e2 == [e1 EXCEPT !.index =
                                                erase_key(@, mk.id)]
                                  IN free_node(e2, maker)
                             ELSE reduce_qty(st.b, s, level_px, maker,
                                             match_qty)
                 IN MatchMakers(
                      [b            |-> b1,
                       qty          |-> st.qty - match_qty,
                       total_filled |-> st.total_filled + match_qty,
                       ev           |-> Append(st.ev,
                                         TradeEvent(taker_id, mk.id,
                                                    best_price, match_qty))],
                      s, level_px, best_price, mk.next, taker_id, taker_user,
                      stp)

RECURSIVE MatchLevels(_, _, _, _, _, _)

\* the end of one pass of the outer loop: a depleted level moves the best
\* and the loop goes on, anything else leaves the loop
LevelDone(st, s, level_px, px_limit, taker_id, taker_user, enable_stp) ==
  IF level_empty(Level(st.b, s, level_px))
    THEN MatchLevels([st EXCEPT !.b = refresh_best_after_depletion(@, s)],
                     s, px_limit, taker_id, taker_user, enable_stp)
    ELSE st

\* the outer loop of match_against_side
MatchLevels(st, s, px_limit, taker_id, taker_user, enable_stp) ==
  IF st.qty <= 0 THEN st
  ELSE LET best_level == best_level_ptr(st.b, s)
           best_price == best(st.b, s)
       IN IF best_level = NullLevel THEN st
          ELSE IF level_empty(Level(st.b, s, best_level[1])) THEN st
          ELSE IF s = "Bid" /\ best_price < px_limit THEN st
          ELSE IF s = "Ask" /\ best_price > px_limit THEN st
          ELSE LevelDone(MatchMakers(st, s, best_level[1], best_price,
                                     Level(st.b, s, best_level[1]).head,
                                     taker_id, taker_user, enable_stp),
                         s, best_level[1], px_limit, taker_id, taker_user,
                         enable_stp)

\* OrderBook::match_against_side<IsBid>; s is the makers' side
match_against_side(b, s, qty, px_limit, taker_id, taker_user, enable_stp) ==
  MatchLevels([b |-> b, qty |-> qty, total_filled |-> 0, ev |-> <<>>],
              s, px_limit, taker_id, taker_user, enable_stp)

ExecResult(filled, remaining) == [filled |-> filled, remaining |-> remaining]

\* what a handler hands back: the book it leaves, its return value and the
\* callbacks it invoked, the BookUpdate u of its final emit_book_update() last
Emitted(u, res, ev) == [b |-> u.b, res |-> res, ev |-> ev \o u.ev]

\* emit_book_update(); return res; -- unless the process was stopped on the
\* way: then nothing more is emitted and no result is returned (res is not
\* handed to anyone)
WithUpdate(b, res, ev) ==
  IF b.fault = "abort" THEN [b |-> b, res |-> res, ev |-> ev]
  ELSE Emitted(emit_book_update(b), res, ev)

\* submit_limit_side, "Update best price if needed"
RaiseBest(b, side, px) ==
  IF side = "Bid"
    THEN IF px > best(b, "Bid") THEN set_best(b, "Bid", px) ELSE b
    ELSE IF px < best(b, "Ask") THEN set_best(b, "Ask", px) ELSE b

\* submit_limit_side, the new node filled in, enqueued and indexed;
\* a is what alloc_node returned
RestNode(a, cmd, remaining) ==
  [RaiseBest(enqueue([a.b EXCEPT !.nodes[a.node] =
                        [@ EXCEPT !.id = cmd.order_id, !.user = cmd.user_id,
                                  !.qty = remaining, !.ts = cmd.recv_ts,
                                  !.flags = cmd.flags]],
                     cmd.side, cmd.price_ticks, a.node),
             cmd.side, cmd.price_ticks)
     EXCEPT !.index = insert(@, cmd.order_id,
                             [side |-> cmd.side, price |-> cmd.price_ticks,
                              node |-> a.node])]

\* submit_limit_side after levels.get_level(cmd.price_ticks) handed back g
RestAt(g, cmd, remaining) ==
  IF g.fault = "abort" THEN g ELSE RestNode(alloc_node(g), cmd, remaining)

\* submit_limit_side, "GTC: rest in book"
RestInBook(b, cmd, remaining) ==
  RestAt(get_level(b, cmd.side, cmd.price_ticks), cmd, remaining)

\* a disposition of the remainder that discards it for IOC only
HandleTimeInForce_FokRests(cmd, m) ==
  LET filled == m.total_filled
      remaining == cmd.qty - filled
  IN IF remaining > 0 /\ cmd.tif = "IOC"
       THEN WithUpdate(m.b, ExecResult(filled, 0), m.ev)
     ELSE IF remaining > 0
       THEN WithUpdate(RestInBook(m.b, cmd, remaining),
                       ExecResult(filled, remaining), m.ev)
     ELSE WithUpdate(m.b, ExecResult(filled, remaining), m.ev)

\* a disposition of the remainder that discards it for FOK only
HandleTimeInForce_IocRests(cmd, m) ==
  LET filled == m.total_filled
      remaining == cmd.qty - filled
  IN IF remaining > 0 /\ cmd.tif = "FOK"
       THEN WithUpdate(m.b, ExecResult(filled, 0), m.ev)
     ELSE IF remaining > 0
       THEN WithUpdate(RestInBook(m.b, cmd, remaining),
                       ExecResult(filled, remaining), m.ev)
     ELSE WithUpdate(m.b, ExecResult(filled, remaining), m.ev)

\* submit_limit_side from "Handle time-in-force" on; m is the outcome of the
\* matching [b, qty, total_filled, ev]
HandleTimeInForce(cmd, m) ==
  LET filled == m.total_filled
      remaining == cmd.qty - filled
  IN IF remaining > 0 /\ cmd.tif \in {"IOC", "FOK"}
       THEN WithUpdate(m.b, ExecResult(filled, 0), m.ev)
     ELSE IF remaining > 0
       THEN WithUpdate(RestInBook(m.b, cmd, remaining),
                       ExecResult(filled, remaining), m.ev)
     ELSE WithUpdate(m.b, ExecResult(filled, remaining), m.ev)

\* submit_limit_side, the test guarding the call of match_against_side
Crosses(b, cmd) ==
  IF cmd.side = "Bid"
    THEN best(b, "Ask") # EMPTY_ASK /\ best(b, "Ask") <= cmd.price_ticks
    ELSE best(b, "Bid") # EMPTY_BID /\ best(b, "Bid") >= cmd.price_ticks

\* OrderBook::submit_limit_side<IsBid>: [b, res, ev]
submit_limit_side(b, cmd) ==
  IF /\ cmd.tif = "FOK"
     /\ ~check_fok_liquidity(b, cmd.side, cmd.qty, cmd.price_ticks)
    THEN WithUpdate(b, ExecResult(0, 0), <<>>)
    ELSE HandleTimeInForce(cmd,
           IF Crosses(b, cmd)
             THEN match_against_side(b, Opposite(cmd.side), cmd.qty,
                                     cmd.price_ticks, cmd.order_id,
                                     cmd.user_id, HasSTP(cmd.flags))
             ELSE [b |-> b, qty |-> cmd.qty, total_filled |-> 0,
                   ev |-> <<>>])

\* OrderBook::submit_limit
submit_limit(b, cmd) == submit_limit_side(b, cmd)

\* submit_market after the matching: the unfilled rest is reported, not kept
MarketDone(cmd, m) ==
  WithUpdate(m.b, ExecResult(m.total_filled, cmd.qty - m.total_filled), m.ev)

\* OrderBook::submit_market: [b, res, ev]
submit_market(b, cmd) ==
  MarketDone(cmd,
    match_against_side(b, Opposite(cmd.side), cmd.qty,
                       IF cmd.side = "Bid" THEN EMPTY_ASK ELSE EMPTY_BID,
                       cmd.order_id, cmd.user_id, HasSTP(cmd.flags)))

\* cancel, "Update best price if level is now empty"
RefreshIfEmpty(b, s, px) ==
  IF level_empty(Level(b, s, px))
    THEN refresh_best_after_depletion(b, s) ELSE b

\* cancel once the entry is found: unlink and free the node, refresh the
\* best, erase the id, emit
CancelEntry(b, id, entry) ==
  WithUpdate(
    [RefreshIfEmpty(
       free_node(erase(get_level(b, entry.side, entry.price),
                       entry.side, entry.price, entry.node),
                 entry.node),
       entry.side, entry.price)
       EXCEPT !.index = erase_key(@, id)],
    TRUE, <<>>)

\* OrderBook::cancel: [b, res, ev], res the returned bool
cancel(b, id) ==
  IF find(b.index, id) = -1
    THEN [b |-> b, res |-> FALSE, ev |-> <<>>]
    ELSE CancelEntry(b, id, b.index.entries[find(b.index, id)].value)

\* modify, case 2 after the cancel; c is what cancel(id) handed back
Replace(c, new_cmd) ==
  IF ~c.res
    THEN [b |-> c.b, res |-> ExecResult(0, 0), ev |-> c.ev]
    ELSE [submit_limit(c.b, new_cmd) EXCEPT !.ev = c.ev \o @]

\* modify once the entry is found; node holds the fields of *entry.node
ModifyEntry(b, id, new_price, new_qty, now, entry, node) ==
  IF new_price = entry.price /\ new_qty < node.qty
    THEN \* Case 1: in-place resize
         WithUpdate(reduce_qty(get_level(b, entry.side, entry.price),
                               entry.side, entry.price, entry.node,
                               node.qty - new_qty),
                    ExecResult(0, new_qty), <<>>)
    ELSE \* Case 2: full cancel and replace
         Replace(cancel(b, id),
                 [order_id |-> id, user_id |-> node.user,
                  price_ticks |-> new_price, qty |-> new_qty,
                  side |-> entry.side, tif |-> "GTC", recv_ts |-> now,
                  flags |-> node.flags])

\* OrderBook::modify: [b, res, ev]
modify(b, id, new_price, new_qty, now) ==
  IF find(b.index, id) = -1
    THEN [b |-> b, res |-> ExecResult(0, 0), ev |-> <<>>]
    ELSE ModifyEntry(b, id, new_price, new_qty, now,
           b.index.entries[find(b.index, id)].value,
           b.nodes[b.index.entries[find(b.index, id)].value.node])

-----------------------------------------------------------------------------
(* The command streams.  A behaviour belongs to one family of streams; the  *)
(* family fixes the ladder, its band and the values commands are drawn from.*)
(* NewOrder commands take the ids of IdSeq in order, so ids are unique and  *)
(* non-zero, as the engine's callers must ensure.                           *)

Scenarios ==
  {"core", "tif", "stp", "fokstp", "ids", "stpids", "ledger", "wide",
   "avl", "band", "bandrel", "replay", "twin", "adv"}

\* matching_engine.cpp builds OrderBook<PriceLevelsArray>; the tree ladder
\* is used by the tests of price_levels_avl.h
Impl(sc) == IF sc = "avl" THEN "AVL" ELSE "Array"

\* PriceBand(100, 200) of the tests; main.cpp's default band 1:100000
Band(sc) ==
  IF sc = "wide" THEN [min_tick |-> 1, max_tick |-> 100000]
                 ELSE [min_tick |-> 100, max_tick |-> 200]

\* what the build makes of an array index outside the band: "assert" where
\* the assert of idx is compiled in or the stray access is fatal,
\* "ndebug_slot" where NDEBUG removes it and the stray access goes through
Build(sc) == IF sc = "bandrel" THEN "ndebug_slot" ELSE "assert"

Prices(sc) ==
  CASE sc = "core"   -> {100, 101}
    [] sc = "tif"    -> {100, 101}
    [] sc = "stp"    -> {100, 101}
    [] sc = "fokstp" -> {100}
    [] sc = "ids"    -> {100}
    [] sc = "stpids" -> {100}
    [] sc = "ledger" -> {100, 101}
    [] sc = "replay" -> {100, 101}
    [] sc = "adv"    -> {100, 101}
    [] sc = "twin"   -> {100, 102}
    [] sc \in {"band", "bandrel"} -> {200, 250}
    [] sc = "wide"   -> {100, 101, 10200}
    [] sc = "avl"    -> {100, 101, 10200}

Qtys(sc) == IF sc \in {"wide", "avl", "replay", "adv"} THEN {1} ELSE {1, 2}

\* quantities of ModifyOrder commands (none: the family has no modify)
ModQtys(sc) ==
  CASE sc = "core" -> {0, 1, 2}
    [] sc \in {"ids", "ledger", "twin"} -> {1, 2}
    [] sc \in {"wide", "avl", "replay"} -> {1}
    [] OTHER -> {}

ModPrices(sc) == IF sc = "stp" THEN {} ELSE Prices(sc)

Tifs(sc) ==
  CASE sc \in {"tif", "ledger", "twin"} -> {"GTC", "IOC", "FOK"}
    [] sc = "fokstp" -> {"GTC", "FOK"}
    [] OTHER -> {"GTC"}

Users(sc) == IF sc \in {"stp", "fokstp", "stpids"} THEN {1, 2} ELSE {1}

\* in the family "fokstp" every order carries the STP flag
FlagSet(sc) ==
  CASE sc \in {"stp", "stpids"} -> {0, STP}
    [] sc = "fokstp" -> {STP}
    [] sc = "adv" -> {0, ICEBERG, STOP}
    [] OTHER -> {0}

IdSeq(sc) ==
  CASE sc \in {"ids", "stpids"} -> <<8798, 5501, 3>>
    [] sc \in {"stp", "fokstp", "ledger", "band", "bandrel", "replay",
                "twin", "adv"} -> <<1, 2, 3>>
    [] OTHER -> <<1, 2, 3, 4>>

\* the ids commands have carried so far
IssuedIds == {IdSeq(scenario)[i] : i \in 1..issued}

MarketAllowed(sc) == sc \in {"tif", "ledger", "twin", "adv"}

\* the order types other than Limit that the family's commands carry; a
\* stop order names a stop price the market has not reached
OtherTypes(sc) ==
  IF sc = "adv" THEN {"Market", "StopLimit", "StopMarket"} ELSE {"Market"}

\* only a StopLimit order among them carries a limit price
OtherPrices(sc, type) == IF type = "StopLimit" THEN Prices(sc) ELSE {0}

\* the families in which no order carries the STP flag
StpFree(sc) == sc \notin {"stp", "fokstp", "stpids"}

\* the family whose behaviours keep the running sums of the ledger
Tracked(sc) == sc = "ledger"

\* the family whose behaviours run a second book, on the tree ladder,
\* alongside the array book (test_price_levels.cpp 180-211)
Paired(sc) == sc = "twin"

NoBook == [impl |-> "None"]

NoCmd ==
  [type |-> "None", order_id |-> 0, user_id |-> 0, price_ticks |-> 0,
   qty |-> 0, side |-> "Bid", tif |-> "GTC", recv_ts |-> 0, flags |-> 0]

NoSnap == [valid |-> FALSE, id |-> 0, book |-> <<>>]

-----------------------------------------------------------------------------
(* Observations of a book, read off the level FIFOs themselves              *)

RECURSIVE Chain(_, _, _)
\* the node addresses reached from n along next, at most fuel of them
Chain(b, n, fuel) ==
  IF n = NullNode \/ fuel = 0 \/ n \notin DOMAIN b.nodes THEN <<>>
  ELSE <<n>> \o Chain(b, b.nodes[n].next, fuel - 1)

\* the nodes linked in the FIFO of level (s, px), head first
Queue(b, s, px) ==
  Chain(b, Level(b, s, px).head, Cardinality(DOMAIN b.nodes))

RECURSIVE SumSeq(_)
SumSeq(q) == IF q = <<>> THEN 0 ELSE Head(q) + SumSeq(Tail(q))

QueueQty(b, s, px) ==
  SumSeq([i \in 1..Len(Queue(b, s, px)) |-> b.nodes[Queue(b, s, px)[i]].qty])

\* the (side, tick) pairs that have a level object
LevelKeys(b) ==
  UNION {{<<s, px>> : px \in DOMAIN b.lad[s].levels} : s \in Sides}

\* every resting order: where it is linked and which node it is
RestingAt(b) ==
  UNION {{[side |-> k[1], price |-> k[2], pos |-> i,
           node |-> Queue(b, k[1], k[2])[i]] :
            i \in 1..Len(Queue(b, k[1], k[2]))} : k \in LevelKeys(b)}

RECURSIVE SumQty(_, _)
SumQty(b, rs) ==
  IF rs = {} THEN 0
  ELSE LET r == CHOOSE x \in rs : TRUE
       IN b.nodes[r.node].qty + SumQty(b, rs \ {r})

\* total open quantity resting in the book
RestingQty(b) == SumQty(b, RestingAt(b))

\* open quantity of the order resting under id (0 when none rests)
OpenQty(b, id) ==
  SumQty(b, {r \in RestingAt(b) : b.nodes[r.node].id = id})

Trades(ev) == SelectSeq(ev, LAMBDA e : e.type = "Trade")

BookUpdates(ev) == SelectSeq(ev, LAMBDA e : e.type = "BookUpdate")

TradedQty(ev) ==
  SumSeq([i \in 1..Len(Trades(ev)) |-> Trades(ev)[i].qty])

-----------------------------------------------------------------------------
(* spsc_queue.h : SPSCQueue<T, N>.  One thread calls push, another pop;     *)
(* each load and each store of head_ and tail_ is one step, as is the copy  *)
(* into or out of buffer_.                                                  *)

\* the template parameter N (a power of two; the tests use 16 and 1024)
RingN == 4

\* static constexpr size_t MASK = N - 1; x & MASK for a non-negative x
Masked(x) == x % RingN

\* how many items a producer offers in one behaviour
MaxItems == 6

\* SPSCQueue(): head_(0), tail_(0); buffer_ holds no value yet (0 stands for
\* the unread garbage)
NewSPSCQueue == [head |-> 0, tail |-> 0, buffer |-> [i \in 0..(RingN - 1) |-> 0]]

\* item is the next value the producer offers; ret the last return of push
IdleProducer ==
  [pc |-> "idle", current_tail |-> 0, next_tail |-> 0, item |-> 1,
   ret |-> "none"]

\* item is what the last pop copied out; ret the last return of pop or
\* empty
IdleConsumer ==
  [pc |-> "idle", current_head |-> 0, item |-> 0, ret |-> "none",
   is_empty |-> "none"]

\* a bool as the threads record it
Answer(flag) == IF flag THEN "true" ELSE "false"

\* a push that never finds the ring full
push_full_never(next_tail, head) == FALSE

\* push: next_tail == head_.load(acquire)
push_full(next_tail, head) == next_tail = head

\* a pop that never finds the ring empty
pop_empty_never(current_head, tail) == FALSE

\* pop: current_head == tail_.load(acquire)
pop_empty(current_head, tail) == current_head = tail

\* size()
size(q) == Masked(q.tail - q.head + RingN)

\* empty()
empty(q) == q.head = q.tail

\* capacity()
capacity == RingN - 1

-----------------------------------------------------------------------------
(* main.cpp : the process.  One symbol: a feed handler thread, one matching *)
(* engine thread and the publisher thread, joined by main in the order they *)
(* were launched.  The queues between them are SPSCQueues, kept here as the *)
(* number of items they hold.                                               *)

\* the commands in the input file
FileCmds == 3

\* capacity() of the queues (65535 in main.cpp)
QueueCap == 2

\* how many callbacks one command can invoke: none (a cancel of an unknown
\* id), a book update, a trade and a book update
EventCounts == {0, 1, 2}

\* the threads once main has launched them and waits in join
LaunchedThreads ==
  [feed |-> "push", engine |-> "poll", publisher |-> "poll",
   main |-> "join_publisher"]

\* fed: commands the feed handler has pushed; input, output: items in the
\* input and output queue; pending: callbacks the engine has still to make
\* for the command it is processing; emitted, written: events so far
NewPipe ==
  [fed |-> 0, input |-> 0, pending |-> 0, output |-> 0, emitted |-> 0,
   written |-> 0,
   input_queue |-> <<>>, output_queue |-> <<>>, processed |-> <<>>,
   published |-> <<>>]

\* input_queue: the commands in the input queue, oldest first, each named by
\* its position in the file; processed: the commands the engine has popped,
\* each with the number of callbacks it makes; output_queue: the events in
\* the output queue, each named by its command and its rank among that
\* command's callbacks; published: the events the publisher has popped

\* a pop that takes the item pushed last
fifo_pop_newest(q) ==
  [item |-> q[Len(q)], rest |-> SubSeq(q, 1, Len(q) - 1)]

\* SPSCQueue::pop on a queue that is not empty: the item at head_
fifo_pop(q) == [item |-> Head(q), rest |-> Tail(q)]

\* a push that finds the queue full whatever it holds
ring_full_always(count) == count >= 0

\* SPSCQueue::push returns false: the queue holds as many items as it can
ring_full(count) == count >= QueueCap

\* the event the engine pushes next for the command it is processing
NextEvent(p) ==
  LET c == p.processed[Len(p.processed)]
  IN [cmd |-> c.cmd, rank |-> c.events - p.pending + 1]

-----------------------------------------------------------------------------
(* The state machine: one action per public operation of OrderBook, as      *)
(* MatchingEngine::run dispatches them.                                     *)

InitOf(families) ==
  /\ scenario \in families
  /\ book = [NewOrderBook(Impl(scenario), Band(scenario), Prices(scenario))
               EXCEPT !.build = Build(scenario)]
  /\ last = NoCmd
  /\ result = ExecResult(0, 0)
  /\ events = <<>>
  /\ stamps = <<>>
  /\ twin = IF Paired(scenario)
              THEN NewOrderBook("AVL", Band(scenario), Prices(scenario))
              ELSE NoBook
  /\ ncmds = 0
  /\ issued = 0
  /\ ledger = [traded |-> 0, accepted |-> 0, resubmitted |-> 0, removed |-> 0]
  /\ snap = NoSnap
  /\ queue = NewSPSCQueue
  /\ producer = IdleProducer
  /\ consumer = IdleConsumer
  /\ pushed = <<>>
  /\ popped = <<>>
  /\ threads = LaunchedThreads
  /\ pipe = NewPipe
  /\ heap = NewHeap

\* the clock commands are stamped with: TimestampUtil::now_ns() read once per
\* command, later commands reading later times
Now == ncmds + 1

\* how far the steady clock of one run can be ahead of that of another run
\* of the same command sequence
MaxSkew == 1

Skews(sc) == IF sc = "replay" THEN 0..MaxSkew ELSE {0}

\* the ts fields of the events of one command: a trade carries the recv_ts
\* handed to match_against_side, a book update a fresh reading of the clock
StampsOf(ev, trade_ts, clock) ==
  [i \in 1..Len(ev) |-> IF ev[i].type = "Trade" THEN trade_ts ELSE clock]

NewOrderCmd(type, px, qty, side, tif, user, flags) ==
  [type |-> type, order_id |-> IdSeq(scenario)[issued + 1], user_id |-> user,
   price_ticks |-> px, qty |-> qty, side |-> side, tif |-> tif,
   recv_ts |-> Now, flags |-> flags]

\* the handler MatchingEngine::run dispatches command cmd to, in a run whose
\* clock reads clock
Rerun(b, cmd, clock) ==
  CASE cmd.type = "Limit" -> submit_limit(b, cmd)
    [] cmd.type \in {"Market", "StopLimit", "StopMarket"} ->
         submit_market(b, cmd)
    [] cmd.type = "Cancel" -> cancel(b, cmd.order_id)
    [] cmd.type = "Modify" ->
         modify(b, cmd.order_id, cmd.price_ticks, cmd.qty, clock)

\* the tree-ladder book after the command the array book is handed (a
\* modify command carries the clock reading of modify as its recv_ts)
OnTwin(cmd) ==
  IF Paired(scenario) THEN Rerun(twin, cmd, cmd.recv_ts).b ELSE twin

\* NewOrder with order_type Limit
SubmitLimit ==
  /\ ncmds < MaxCmds
  /\ book.fault = "none"
  /\ issued < Len(IdSeq(scenario))
  /\ \E px \in Prices(scenario), qty \in Qtys(scenario), side \in Sides,
        tif \in Tifs(scenario), user \in Users(scenario),
        flags \in FlagSet(scenario) :
       \E cmd \in {NewOrderCmd("Limit", px, qty, side, tif, user, flags)} :
       \E r \in {submit_limit(book, cmd)}, k \in Skews(scenario) :
          /\ book' = r.b
          /\ last' = cmd
          /\ result' = r.res
          /\ events' = r.ev
          /\ stamps' = StampsOf(r.ev, cmd.recv_ts, Now + k)
          /\ twin' = OnTwin(cmd)
          /\ ledger' =
               IF ~Tracked(scenario) THEN ledger
               ELSE [ledger EXCEPT
                       !.traded = @ + TradedQty(r.ev),
                       !.accepted = @ + qty,
                       !.removed = @ + IF tif \in {"IOC", "FOK"}
                                         THEN qty - r.res.filled ELSE 0]
          /\ snap' = IF tif = "GTC" /\ r.res.filled = 0 /\ r.res.remaining > 0
                       THEN [valid |-> TRUE, id |-> cmd.order_id,
                             book |-> book]
                       ELSE NoSnap
  /\ ncmds' = ncmds + 1
  /\ issued' = issued + 1
  /\ UNCHANGED scenario
  /\ UNCHANGED <<ringvars, procvars, heap>>

\* NewOrder with any other order_type
SubmitMarket ==
  /\ ncmds < MaxCmds
  /\ book.fault = "none"
  /\ issued < Len(IdSeq(scenario))
  /\ MarketAllowed(scenario)
  /\ \E qty \in Qtys(scenario), side \in Sides, user \in Users(scenario),
        flags \in FlagSet(scenario), type \in OtherTypes(scenario) :
       \E px \in OtherPrices(scenario, type) :
       \E cmd \in {NewOrderCmd(type, px, qty, side, "GTC", user, flags)} :
       \E r \in {submit_market(book, cmd)}, k \in Skews(scenario) :
          /\ book' = r.b
          /\ last' = cmd
          /\ result' = r.res
          /\ events' = r.ev
          /\ stamps' = StampsOf(r.ev, cmd.recv_ts, Now + k)
          /\ twin' = OnTwin(cmd)
          /\ ledger' =
               IF ~Tracked(scenario) THEN ledger
               ELSE [ledger EXCEPT !.traded = @ + TradedQty(r.ev),
                                   !.accepted = @ + qty,
                                   !.removed = @ + r.res.remaining]
  /\ snap' = NoSnap
  /\ ncmds' = ncmds + 1
  /\ issued' = issued + 1
  /\ UNCHANGED scenario
  /\ UNCHANGED <<ringvars, procvars, heap>>

\* CancelOrder
Cancel ==
  /\ ncmds < MaxCmds
  /\ book.fault = "none"
  /\ \E id \in IssuedIds :
       \E cmd \in {[NoCmd EXCEPT !.type = "Cancel", !.order_id = id,
                                    !.recv_ts = Now]} :
       \E r \in {cancel(book, id)}, k \in Skews(scenario) :
          /\ book' = r.b
          /\ last' = cmd
          /\ result' = r.res
          /\ events' = r.ev
          /\ stamps' = StampsOf(r.ev, cmd.recv_ts, Now + k)
          /\ twin' = OnTwin(cmd)
          /\ ledger' =
               IF ~Tracked(scenario) THEN ledger
               ELSE [ledger EXCEPT
                       !.removed = @ + IF r.res THEN OpenQty(book, id) ELSE 0]
  /\ snap' = NoSnap
  /\ ncmds' = ncmds + 1
  /\ UNCHANGED <<scenario, issued>>
  /\ UNCHANGED <<ringvars, procvars, heap>>

\* ModifyOrder
Modify ==
  /\ ncmds < MaxCmds
  /\ book.fault = "none"
  /\ \E id \in IssuedIds, px \in ModPrices(scenario),
        qty \in ModQtys(scenario), k \in Skews(scenario) :
       \E r \in {modify(book, id, px, qty, Now + k)} :
       LET cmd == [NoCmd EXCEPT !.type = "Modify", !.order_id = id,
                                !.price_ticks = px, !.qty = qty,
                                !.recv_ts = Now + k]
           slot == find(book.index, id)
           entry == book.index.entries[slot].value
           open == book.nodes[entry.node].qty
           inplace == slot # -1 /\ px = entry.price /\ qty < open
       IN /\ book' = r.b
          /\ last' = cmd
          /\ result' = r.res
          /\ events' = r.ev
          /\ stamps' = StampsOf(r.ev, Now + k, Now + k)
          /\ twin' = OnTwin(cmd)
          /\ ledger' =
               IF ~Tracked(scenario) \/ slot = -1 THEN ledger
               ELSE IF inplace
                 THEN [ledger EXCEPT !.removed = @ + (open - qty)]
               ELSE [ledger EXCEPT !.traded = @ + TradedQty(r.ev),
                                   !.removed = @ + open,
                                   !.resubmitted = @ + qty]
          /\ snap' = IF inplace /\ snap.valid /\ snap.id = id
                       THEN snap ELSE NoSnap
  /\ ncmds' = ncmds + 1
  /\ UNCHANGED <<scenario, issued>>
  /\ UNCHANGED <<ringvars, procvars, heap>>

Next == SubmitLimit \/ SubmitMarket \/ Cancel \/ Modify

\* both ladders, both bands, every command kind
Init ==
  InitOf({"core", "tif", "stp", "fokstp", "ids", "stpids", "wide", "avl",
          "band", "bandrel", "replay", "adv"})

Spec == Init /\ [][Next]_vars

\* the same machine over the family that keeps the ledger
InitLedger == InitOf({"ledger"})

SpecLedger == InitLedger /\ [][Next]_vars

\* the same machine over the family that runs both ladders side by side
InitTwin == InitOf({"twin"})

SpecTwin == InitTwin /\ [][Next]_vars

-----------------------------------------------------------------------------
(* The two threads at an SPSCQueue                                          *)

\* push, first statement: current_tail = tail_.load(relaxed), next_tail
PushLoadTail ==
  /\ producer.pc = "idle"
  /\ producer.item <= MaxItems
  /\ producer' = [producer EXCEPT !.pc = "check",
                                   !.current_tail = queue.tail,
                                   !.next_tail = Masked(queue.tail + 1)]
  /\ UNCHANGED <<queue, consumer, pushed, popped>>
  /\ UNCHANGED <<bookvars, procvars, heap>>

\* push: the load of head_ and the test; a full ring returns false and the
\* caller offers the same item again
PushLoadHead ==
  /\ producer.pc = "check"
  /\ producer' =
       IF push_full(producer.next_tail, queue.head)
         THEN [producer EXCEPT !.pc = "idle", !.ret = "false"]
         ELSE [producer EXCEPT !.pc = "write"]
  /\ UNCHANGED <<queue, consumer, pushed, popped>>
  /\ UNCHANGED <<bookvars, procvars, heap>>

\* push: buffer_[current_tail] = item
PushWrite ==
  /\ producer.pc = "write"
  /\ queue' = [queue EXCEPT !.buffer[producer.current_tail] = producer.item]
  /\ producer' = [producer EXCEPT !.pc = "store"]
  /\ UNCHANGED <<consumer, pushed, popped>>
  /\ UNCHANGED <<bookvars, procvars, heap>>

\* push: tail_.store(next_tail, release); return true
PushStoreTail ==
  /\ producer.pc = "store"
  /\ queue' = [queue EXCEPT !.tail = producer.next_tail]
  /\ pushed' = Append(pushed, producer.item)
  /\ producer' = [producer EXCEPT !.pc = "idle", !.ret = "true",
                                   !.item = @ + 1]
  /\ UNCHANGED <<consumer, popped>>
  /\ UNCHANGED <<bookvars, procvars, heap>>

\* pop, first statement: current_head = head_.load(relaxed)
PopLoadHead ==
  /\ consumer.pc = "idle"
  /\ Len(popped) < MaxItems
  /\ consumer' = [consumer EXCEPT !.pc = "check",
                                   !.current_head = queue.head]
  /\ UNCHANGED <<queue, producer, pushed, popped>>
  /\ UNCHANGED <<bookvars, procvars, heap>>

\* pop: the load of tail_ and the test; an empty ring returns false
PopLoadTail ==
  /\ consumer.pc = "check"
  /\ consumer' =
       IF pop_empty(consumer.current_head, queue.tail)
         THEN [consumer EXCEPT !.pc = "idle", !.ret = "false"]
         ELSE [consumer EXCEPT !.pc = "read"]
  /\ UNCHANGED <<queue, producer, pushed, popped>>
  /\ UNCHANGED <<bookvars, procvars, heap>>

\* pop: item = buffer_[current_head]
PopRead ==
  /\ consumer.pc = "read"
  /\ consumer' = [consumer EXCEPT !.pc = "store",
                                   !.item = queue.buffer[consumer.current_head]]
  /\ UNCHANGED <<queue, producer, pushed, popped>>
  /\ UNCHANGED <<bookvars, procvars, heap>>

\* pop: head_.store((current_head + 1) & MASK, release); return true
PopStoreHead ==
  /\ consumer.pc = "store"
  /\ queue' = [queue EXCEPT !.head = Masked(consumer.current_head + 1)]
  /\ popped' = Append(popped, consumer.item)
  /\ consumer' = [consumer EXCEPT !.pc = "idle", !.ret = "true"]
  /\ UNCHANGED <<producer, pushed>>
  /\ UNCHANGED <<bookvars, procvars, heap>>

\* empty() called by the consumer between two pops
ConsumerEmpty ==
  /\ consumer.pc = "idle"
  /\ consumer.is_empty # Answer(empty(queue))
  /\ consumer' = [consumer EXCEPT !.is_empty = Answer(empty(queue))]
  /\ UNCHANGED <<queue, producer, pushed, popped>>
  /\ UNCHANGED <<bookvars, procvars, heap>>

NextRing ==
  \/ PushLoadTail \/ PushLoadHead \/ PushWrite \/ PushStoreTail
  \/ PopLoadHead \/ PopLoadTail \/ PopRead \/ PopStoreHead
  \/ ConsumerEmpty

\* one queue, one producer thread, one consumer thread
InitRing == InitOf({"core"})

SpecRing == InitRing /\ [][NextRing]_vars

-----------------------------------------------------------------------------
(* What the properties below read off a book and off one command: the       *)
(* command is last', its callbacks events', the book it met book.           *)

Bids(b) == {r \in RestingAt(b) : r.side = "Bid"}

Asks(b) == {r \in RestingAt(b) : r.side = "Ask"}

\* the highest tick a bid rests at, the lowest tick an ask rests at
HighestBid(b) ==
  IF Bids(b) = {} THEN EMPTY_BID
  ELSE (CHOOSE r \in Bids(b) : \A q \in Bids(b) : q.price <= r.price).price

LowestAsk(b) ==
  IF Asks(b) = {} THEN EMPTY_ASK
  ELSE (CHOOSE r \in Asks(b) : \A q \in Asks(b) : q.price >= r.price).price

IdOf(b, r) == b.nodes[r.node].id

Rests(b, id) == \E r \in RestingAt(b) : IdOf(b, r) = id

\* where the order resting under id on side s is linked
RestingOf(b, s, id) ==
  CHOOSE r \in RestingAt(b) : r.side = s /\ IdOf(b, r) = id

\* what lookups in the index answer: id -> (side, price, node)
IndexView(b) ==
  {<<b.index.entries[i].key, b.index.entries[i].value>> :
     i \in {j \in DOMAIN b.index.entries :
              find(b.index, b.index.entries[j].key) = j}}

\* the orders of a level, head first, as a client sees them
QueueView(b, s, px) ==
  [i \in 1..Len(Queue(b, s, px)) |->
     LET n == b.nodes[Queue(b, s, px)[i]]
     IN [id |-> n.id, user |-> n.user, qty |-> n.qty, ts |-> n.ts,
         flags |-> n.flags]]

\* the book up to node addresses and empty level objects
BookView(b) ==
  [levels   |-> {<<k, QueueView(b, k[1], k[2]),
                   Level(b, k[1], k[2]).total_qty>> :
                   k \in {x \in LevelKeys(b) :
                            ~level_empty(Level(b, x[1], x[2]))}},
   index    |-> {<<e[1], e[2].side, e[2].price>> : e \in IndexView(b)},
   best_bid |-> best(b, "Bid"),
   best_ask |-> best(b, "Ask")]

\* the side the command just dispatched takes liquidity for: a modify
\* resubmits on the side its order rested on
TakerSide ==
  IF last'.type = "Modify"
    THEN (CHOOSE r \in RestingAt(book) : IdOf(book, r) = last'.order_id).side
    ELSE last'.side

\* the quantity of the first n trades
FilledBy(ts, n) == SumSeq([j \in 1..n |-> ts[j].qty])

\* p is a better price than q for a taker of side s
BetterFor(s, p, q) == IF s = "Bid" THEN p < q ELSE p > q

-----------------------------------------------------------------------------
(* The properties.                                                          *)

\* C1: after every command the index and the ladders agree: every node
\* linked in a level is what a lookup of its id answers (side, price, node),
\* every entry of the index is found under its key and designates a node
\* linked at its side and price that carries the key, and no two entries
\* share a key.
C1_IndexAgreesWithLadders ==
  /\ \A r \in RestingAt(book) :
       <<IdOf(book, r), [side |-> r.side, price |-> r.price,
                         node |-> r.node]>> \in IndexView(book)
  /\ \A i \in DOMAIN book.index.entries :
       LET e == book.index.entries[i]
       IN /\ find(book.index, e.key) = i
          /\ \E r \in RestingAt(book) :
               /\ r.side = e.value.side /\ r.price = e.value.price
               /\ r.node = e.value.node /\ IdOf(book, r) = e.key

\* C2: after every command best_bid() is the highest tick a bid rests at
\* (EMPTY_BID when none rests) and best_ask() the lowest tick an ask rests at
\* (EMPTY_ASK when none rests).
C2_BestIsExtremeRestingTick ==
  /\ best(book, "Bid") = HighestBid(book)
  /\ best(book, "Ask") = LowestAsk(book)

\* C3: in a stream where no order carries the STP flag the book is not
\* crossed at rest: one side holds no order or the highest resting bid is
\* strictly below the lowest resting ask.
C3_NotCrossedAtRest ==
  StpFree(scenario) =>
    \/ Bids(book) = {}
    \/ Asks(book) = {}
    \/ HighestBid(book) < LowestAsk(book)

\* one command of a stream without STP fills the makers of a level in the
\* order they were enqueued (read off the nodes' ts, in the streams whose
\* clock runs with the commands)
FifoStep ==
  (StpFree(scenario) /\ Skews(scenario) = {0}) =>
    LET ts == Trades(events')
        ms == Opposite(TakerSide)
    IN \A i \in 1..Len(ts) :
         LET m == RestingOf(book, ms, ts[i].maker_id)
         IN /\ \A r \in RestingAt(book) :
                 (/\ r.side = ms
                  /\ r.price = m.price
                  /\ book.nodes[r.node].ts < book.nodes[m.node].ts)
                 => /\ \E j \in 1..(i - 1) :
                         /\ ts[j].maker_id = IdOf(book, r)
                         /\ ts[j].qty = book.nodes[r.node].qty
                    /\ ~\E x \in RestingAt(book') :
                          x.side = ms /\ IdOf(book', x) = IdOf(book, r)
            /\ ts[i].qty < book.nodes[m.node].qty
                 => \E x \in RestingAt(book') :
                      /\ x.side = ms /\ x.price = m.price /\ x.pos = 1
                      /\ IdOf(book', x) = ts[i].maker_id
                      /\ book'.nodes[x.node].qty =
                           book.nodes[m.node].qty - ts[i].qty

\* C4: without STP, when a taker trades at a level, every order enqueued
\* earlier at that side and price than a maker that receives a fill has been
\* filled in full by an earlier trade of the command and is gone from the
\* level, and a maker filled in part is the head of its level afterwards
\* with the rest of its quantity.
C4_FifoWithinLevel == [][FifoStep]_vars

\* two makers of one level filled by one taker, the second in part
C4_Witness ==
  /\ StpFree(scenario)
  /\ Len(Trades(events)) >= 2
  /\ Trades(events)[1].price_ticks = Trades(events)[2].price_ticks
  /\ \E x \in RestingAt(book) :
       /\ x.pos = 1
       /\ x.price = Trades(events)[2].price_ticks
       /\ IdOf(book, x) = Trades(events)[2].maker_id

\* C5 as stated: the traded quantity plus the resting quantity is the
\* quantity of the accepted NewOrder commands.
C5_TradesPlusRestingIsAccepted ==
  ledger.traded + RestingQty(book) = ledger.accepted

\* C5, amended: quantity is conserved.  Each trade consumes its quantity
\* once from the taker and once from the maker, so twice the traded quantity
\* plus the resting quantity plus the quantity taken out of the book
\* (cancelled, shrunk by a modify, or the discarded remainder of an IOC, FOK
\* or market order) is the quantity of the accepted NewOrder commands plus
\* the quantity resubmitted by cancel-replace modifies.
C5_QuantityConserved ==
  2 * ledger.traded + RestingQty(book) + ledger.removed
    = ledger.accepted + ledger.resubmitted

\* trades, a resting remainder, removed and resubmitted quantity together
C5_Witness ==
  /\ ledger.traded > 0
  /\ ledger.removed > 0
  /\ ledger.resubmitted > 0
  /\ RestingQty(book) > 0

\* C6: in every reachable state the total_qty of each level is the sum of
\* the qty fields of the nodes linked in its FIFO.
C6_LevelTotalIsSumOfNodes ==
  \A k \in LevelKeys(book) :
    Level(book, k[1], k[2]).total_qty = QueueQty(book, k[1], k[2])

\* a level of two makers, after a command that traded
C6_Witness ==
  /\ Len(Trades(events)) > 0
  /\ \E k \in LevelKeys(book) :
       /\ Len(Queue(book, k[1], k[2])) >= 2
       /\ Level(book, k[1], k[2]).total_qty >= 3

\* the trades of one new order go best price first, FIFO within a price
PriceTimeStep ==
  last'.type \in {"Limit", "Market"} =>
    LET ts == Trades(events')
        ms == Opposite(last'.side)
    IN /\ \A i \in 1..(Len(ts) - 1) :
            ~BetterFor(last'.side, ts[i + 1].price_ticks, ts[i].price_ticks)
       /\ \A i \in 1..Len(ts) : \A j \in (i + 1)..Len(ts) :
            ts[i].price_ticks = ts[j].price_ticks
              => RestingOf(book, ms, ts[i].maker_id).pos
                   < RestingOf(book, ms, ts[j].maker_id).pos
       /\ \A i \in 1..Len(ts) : \A r \in RestingAt(book) :
            (r.side = ms /\ BetterFor(last'.side, r.price, ts[i].price_ticks))
              => \E j \in 1..(i - 1) :
                   /\ ts[j].maker_id = IdOf(book, r)
                   /\ ts[j].qty = book.nodes[r.node].qty

\* C7: for a single new order the trade prices are non-decreasing for a bid
\* taker and non-increasing for an ask taker, trades at one price follow the
\* makers' queue order, and no maker is filled at a price while a maker at a
\* better price (matchable, since the worse price was) still rests.
C7_BestPriceFirstThenFifo == [][PriceTimeStep]_vars

\* every trade of one command is at its maker's level, for the smaller of the
\* taker's remainder and the maker's quantity, with both ids, inside the limit
TradeStep ==
  LET ts == Trades(events')
      qty == last'.qty
      limit == last'.price_ticks
  IN \A i \in 1..Len(ts) :
       /\ \E r \in RestingAt(book) :
            r.side = Opposite(TakerSide) /\ IdOf(book, r) = ts[i].maker_id
       /\ LET m == RestingOf(book, Opposite(TakerSide), ts[i].maker_id)
          IN /\ ts[i].price_ticks = m.price
             /\ ts[i].qty = Min2(qty - FilledBy(ts, i - 1),
                                 book.nodes[m.node].qty)
       /\ ts[i].taker_id = last'.order_id
       \* (an order handed to submit_market is matched with the sentinel as
       \* its limit, whatever price_ticks it carries)
       /\ last'.type = "Limit" =>
            ~BetterFor(TakerSide, limit, ts[i].price_ticks)

RoundTripStep ==
  (/\ snap.valid
   /\ last'.type = "Cancel"
   /\ last'.order_id = snap.id
   /\ result' = TRUE)
  => BookView(book') = BookView(snap.book)

\* C9: if NewOrder(id) (GTC, fresh id) rests without matching, then
\* Cancel(id), optionally preceded by Modify(id, same price, smaller
\* quantity), restores the levels with their FIFO order and quantities, the
\* index contents and best_bid and best_ask of the book before the NewOrder.
C9_RoundTripRestoresBook == [][RoundTripStep]_vars

\* an accepted command has called on_book_update once
BookUpdateStep ==
  (\/ last'.type \in {"Limit", "Market"}
   \/ /\ last'.type \in {"Cancel", "Modify"}
      /\ Rests(book, last'.order_id))
  => Len(BookUpdates(events')) = 1

\* C10: every accepted command (submit_limit with any TIF, submit_market,
\* cancel of a resting id, modify of a resting id on either path) produces
\* exactly one BookUpdate.
C10_OneBookUpdatePerCommand == [][BookUpdateStep]_vars

\* C11: within one command the book update comes last: among the callbacks
\* of a command no on_trade follows an on_book_update, whatever the command
\* type, a modify whose resubmission crosses included.
C11_BookUpdateComesLast ==
  \A i \in 1..Len(events) : \A j \in 1..Len(events) :
    (events[i].type = "BookUpdate" /\ events[j].type = "Trade") => j < i

RECURSIVE SumLevels(_, _, _)
\* the total_qty of the levels of side s at the ticks pxs, summed
SumLevels(b, s, pxs) ==
  IF pxs = {} THEN 0
  ELSE LET px == CHOOSE x \in pxs : TRUE
       IN Level(b, s, px).total_qty + SumLevels(b, s, pxs \ {px})

\* the liquidity a taker of side s with limit px_limit crosses: the total_qty
\* of the opposite levels from the opposite best price up to the limit
CrossingLiquidity(b, s, px_limit) ==
  SumLevels(b, Opposite(s),
            {px \in DOMAIN b.lad[Opposite(s)].levels :
               IF s = "Bid" THEN best(b, "Ask") <= px /\ px <= px_limit
                            ELSE px_limit <= px /\ px <= best(b, "Bid")})

\* a FOK limit order short of crossing liquidity changes nothing
FokRejectStep ==
  (/\ last'.type = "Limit"
   /\ last'.tif = "FOK"
   /\ CrossingLiquidity(book, last'.side, last'.price_ticks) < last'.qty)
  => /\ Trades(events') = <<>>
     /\ book'.lad = book.lad
     /\ book'.index = book.index
     /\ BookView(book') = BookView(book)
     /\ result' = ExecResult(0, 0)
     /\ Len(BookUpdates(events')) = 1

\* C12: a FOK limit order whose crossing liquidity (the sum of total_qty over
\* the opposite levels from the best price up to the limit) is strictly less
\* than its quantity produces no trade, leaves every level, the index and
\* both best prices unchanged, returns {filled = 0, remaining = 0} and emits
\* one book update.
C12_FokShortOfLiquidityIsNoOp == [][FokRejectStep]_vars

\* a FOK order for 2 rejected over a crossing level that holds 1
C12_Witness ==
  /\ last.type = "Limit"
  /\ last.tif = "FOK"
  /\ last.qty = 2
  /\ CrossingLiquidity(book, last.side, last.price_ticks) = 1
  /\ result = ExecResult(0, 0)
  /\ Len(events) = 1

\* a FOK limit order does not rest; past the precheck and without the STP
\* flag it is filled in full
FokStep ==
  (last'.type = "Limit" /\ last'.tif = "FOK")
  => /\ ~Rests(book', last'.order_id)
     /\ find(book'.index, last'.order_id) = -1
     /\ book'.lad[last'.side] = book.lad[last'.side]
     /\ (/\ check_fok_liquidity(book, last'.side, last'.qty,
                                last'.price_ticks)
         /\ ~HasSTP(last'.flags))
        => /\ result'.filled = last'.qty
           /\ TradedQty(events') = last'.qty
     /\ (0 < TradedQty(events') /\ TradedQty(events') < last'.qty)
        => HasSTP(last'.flags)

\* C13: a FOK limit order never rests, and a FOK order that passes the
\* precheck and does not carry the STP flag is filled in full (result.filled
\* and the sum of its trades are cmd.qty): a partial FOK fill arises only
\* when the STP flag is set.
C13_FokAllOrNothing == [][FokStep]_vars

\* a FOK order for 2 without the STP flag, filled by two makers
C13_Witness ==
  /\ last.type = "Limit"
  /\ last.tif = "FOK"
  /\ ~HasSTP(last.flags)
  /\ last.qty = 2
  /\ Len(Trades(events)) = 2
  /\ result = ExecResult(2, 0)

\* an IOC limit order leaves nothing of itself in the book
IocStep ==
  (last'.type = "Limit" /\ last'.tif = "IOC")
  => /\ find(book'.index, last'.order_id) = -1
     /\ ~Rests(book', last'.order_id)
     /\ book'.lad[last'.side] = book.lad[last'.side]
     /\ result'.remaining = 0
     /\ result'.filled = TradedQty(events')

\* C14: an IOC limit order never rests: after it the index has no entry for
\* its id and the levels of its own side are unchanged; result.remaining is
\* 0 and result.filled is the sum of the quantities of its trades.
C14_IocNeverRests == [][IocStep]_vars

\* an IOC order for 2 that met 1 and whose remainder was discarded
C14_Witness ==
  /\ last.type = "Limit"
  /\ last.tif = "IOC"
  /\ last.qty = 2
  /\ TradedQty(events) = 1
  /\ result = ExecResult(1, 0)

\* the limit order a market order is said to be: IOC at the far sentinel
AsIocLimit(cmd) ==
  [cmd EXCEPT !.type = "Limit", !.tif = "IOC",
              !.price_ticks = IF cmd.side = "Bid" THEN EMPTY_ASK
                                                  ELSE EMPTY_BID]

\* a market order does what its IOC limit order does from the same book
MarketAsIocStep ==
  last'.type = "Market"
  => /\ [b |-> book', res |-> result', ev |-> events']
          = submit_limit(book, AsIocLimit(last'))
     /\ Len(BookUpdates(events')) = 1
     /\ result'.remaining = 0

\* C15: submit_market(cmd) is equivalent to submit_limit with TIF = IOC and
\* limit EMPTY_ASK (buy) or EMPTY_BID (sell): from the same book both produce
\* the same trades, the same resulting book, one book update and the same
\* ExecResult, in which an unfilled residual is reported as remaining = 0.
C15_MarketIsIocAtSentinel == [][MarketAsIocStep]_vars

\* a modify to the same price and a smaller quantity shrinks in place
InPlaceStep ==
  (/\ last'.type = "Modify"
   /\ Rests(book, last'.order_id))
  => LET r == CHOOSE x \in RestingAt(book) :
                 IdOf(book, x) = last'.order_id
         open == book.nodes[r.node].qty
         q == last'.qty
     IN (last'.price_ticks = r.price /\ q < open)
        => /\ QueueView(book', r.side, r.price)
                = [QueueView(book, r.side, r.price) EXCEPT ![r.pos].qty = q]
           /\ Level(book', r.side, r.price).total_qty
                = Level(book, r.side, r.price).total_qty - (open - q)
           /\ Trades(events') = <<>>
           /\ result' = ExecResult(0, q)

\* C16: modify(id, p, q) with p the resting order's price and q strictly
\* less than its open quantity shrinks the order in place: the node keeps its
\* position in the level FIFO with the orders ahead of and behind it
\* unchanged, its qty becomes q, the level total_qty drops by the difference,
\* no trade is emitted and the result is {filled = 0, remaining = q}.
C16_ModifyShrinksInPlace == [][InPlaceStep]_vars

\* the entries of a queue view other than those of id
Without(q, id) == SelectSeq(q, LAMBDA e : e.id # id)

\* the orders resting at (s, px), head first; none where no level object is
RestingView(b, s, px) ==
  IF <<s, px>> \in LevelKeys(b) THEN QueueView(b, s, px) ELSE <<>>

\* a modify to another price or to no smaller a quantity cancels and resubmits
CancelReplaceStep ==
  (/\ last'.type = "Modify"
   /\ Rests(book, last'.order_id))
  => LET id == last'.order_id
         r == CHOOSE x \in RestingAt(book) : IdOf(book, x) = id
         node == book.nodes[r.node]
         p == last'.price_ticks
         q == last'.qty
         new_cmd == [order_id |-> id, user_id |-> node.user,
                     price_ticks |-> p, qty |-> q, side |-> r.side,
                     tif |-> "GTC", recv_ts |-> last'.recv_ts,
                     flags |-> node.flags]
         crossing == \E x \in RestingAt(book) :
                       /\ x.side = Opposite(r.side)
                       /\ IF r.side = "Bid" THEN x.price <= p
                                            ELSE x.price >= p
     IN (p # r.price \/ q >= node.qty)
        => IF ~crossing
             THEN /\ Trades(events') = <<>>
                  /\ RestingView(book', r.side, p)
                       = Without(RestingView(book, r.side, p), id)
                           \o <<[id |-> id, user |-> node.user, qty |-> q,
                                 ts |-> last'.recv_ts, flags |-> node.flags]>>
                  /\ p # r.price
                       => RestingView(book', r.side, r.price)
                            = Without(RestingView(book, r.side, r.price), id)
             ELSE LET s == submit_limit(cancel(book, id).b, new_cmd)
                  IN /\ book' = s.b
                     /\ Trades(events') = Trades(s.ev)
                     /\ result' = s.res

\* C17: modify(id, p, q) with a different price, or with q no less than the
\* open quantity, cancels the order and resubmits it as a GTC limit with the
\* same id, user, flags and side: if it does not cross it ends at the tail
\* of the level at p with quantity q, behind every order already resting
\* there; if p crosses the opposite side it matches like a new order.
C17_ModifyCancelReplace == [][CancelReplaceStep]_vars

\* a cancel answers whether the id rests and removes just that order; a
\* cancel or modify of an id that does not rest changes nothing
CancelStep ==
  LET id == last'.order_id
  IN /\ last'.type = "Cancel"
          => /\ result' = Rests(book, id)
             /\ Rests(book, id)
                  => /\ \A k \in LevelKeys(book) :
                          RestingView(book', k[1], k[2])
                            = Without(RestingView(book, k[1], k[2]), id)
                     /\ IndexView(book')
                          = {e \in IndexView(book) : e[1] # id}
                     /\ find(book'.index, id) = -1
                     /\ ~cancel(book', id).res
             /\ ~Rests(book, id) => BookView(book') = BookView(book)
     /\ (last'.type = "Modify" /\ ~Rests(book, id))
          => /\ result' = ExecResult(0, 0)
             /\ BookView(book') = BookView(book)

\* C18: cancel(id) returns true exactly when the id is resting; on true that
\* node and no other is removed from its level and from the index, the order
\* of the other nodes is unchanged, and a cancel repeated at once returns
\* false; a cancel or modify of an id that is not resting returns false or
\* {0, 0} and changes no level, index entry or best price.
C18_CancelRemovesExactlyTheOrder == [][CancelStep]_vars

\* a command turned down without an error has called on_book_update once
SoftRejectStep ==
  (\/ /\ last'.type \in {"Cancel", "Modify"}
      /\ ~Rests(book, last'.order_id)
   \/ /\ last'.type = "Limit"
      /\ last'.tif = "FOK"
      /\ ~check_fok_liquidity(book, last'.side, last'.qty, last'.price_ticks)
   \/ /\ last'.type = "Limit"
      /\ last'.tif = "IOC"
      /\ TradedQty(events') < last'.qty)
  => Len(BookUpdates(events')) = 1

\* C19: soft rejects still publish a snapshot: a cancel or a modify of an id
\* that is not resting, like a FOK precheck failure and an IOC order whose
\* residual is discarded, invokes on_book_update once.
C19_SoftRejectsPublishSnapshot == [][SoftRejectStep]_vars

\* x is at least as good a price for a taker of side s as y, both resting on
\* the opposite side
NotWorseFor(s, x, y) == ~BetterFor(s, y, x)

\* the makers a taker of side s meets before it meets maker x: those at a
\* better price from the cached best on, and those ahead of x in its level
AheadOf(b, s, x) ==
  {y \in RestingAt(b) :
     /\ y.side = x.side
     /\ NotWorseFor(s, best(b, x.side), y.price)
     /\ \/ BetterFor(s, y.price, x.price)
        \/ y.price = x.price /\ y.pos < x.pos}

\* the same-user makers the taker last' walks over without trading: within
\* its limit, reached from the cached best with quantity left, no same-user
\* maker holding the walk at a better level
Skipped ==
  {x \in RestingAt(book) :
     /\ x.side = Opposite(last'.side)
     /\ book.nodes[x.node].user = last'.user_id
     /\ last'.type = "Limit" => NotWorseFor(last'.side, x.price,
                                            last'.price_ticks)
     /\ NotWorseFor(last'.side, best(book, x.side), x.price)
     /\ \A y \in AheadOf(book, last'.side, x) :
          book.nodes[y.node].user = last'.user_id => y.price = x.price
     /\ SumQty(book, {y \in AheadOf(book, last'.side, x) :
                        book.nodes[y.node].user # last'.user_id})
          < last'.qty}

\* a taker with the STP flag trades with no maker of its own user, leaves
\* the makers it skips as they were, and rests what is left of a GTC order
StpStep ==
  (last'.type \in {"Limit", "Market"} /\ HasSTP(last'.flags))
  => LET ms == Opposite(last'.side)
         ts == Trades(events')
     IN /\ \A i \in 1..Len(ts) :
             book.nodes[RestingOf(book, ms, ts[i].maker_id).node].user
               # last'.user_id
        /\ \A x \in Skipped :
             /\ \E y \in RestingAt(book') :
                  /\ y.side = x.side /\ y.price = x.price /\ y.node = x.node
                  /\ QueueView(book', y.side, y.price)[y.pos]
                       = QueueView(book, x.side, x.price)[x.pos]
                  /\ {IdOf(book', z) : z \in {w \in RestingAt(book') :
                        w.side = y.side /\ w.price = y.price /\ w.pos < y.pos}}
                       \subseteq
                     {IdOf(book, z) : z \in {w \in RestingAt(book) :
                        w.side = x.side /\ w.price = x.price /\ w.pos < x.pos}}
                  /\ {IdOf(book', z) : z \in {w \in RestingAt(book') :
                        w.side = y.side /\ w.price = y.price /\ w.pos > y.pos}}
                       \subseteq
                     {IdOf(book, z) : z \in {w \in RestingAt(book) :
                        w.side = x.side /\ w.price = x.price /\ w.pos > x.pos}}
             /\ LET e == <<IdOf(book, x), [side |-> x.side, price |-> x.price,
                                            node |-> x.node]>>
                IN e \in IndexView(book) => e \in IndexView(book')
        /\ (/\ last'.type = "Limit"
            /\ last'.tif = "GTC"
            /\ TradedQty(events') < last'.qty)
           => \E y \in RestingAt(book') :
                /\ y.side = last'.side
                /\ y.price = last'.price_ticks
                /\ y.pos = Len(Queue(book', y.side, y.price))
                /\ IdOf(book', y) = last'.order_id
                /\ book'.nodes[y.node].qty = last'.qty - TradedQty(events')

\* C20: self-trade prevention: when the taker carries the STP flag no trade
\* is emitted whose maker has the taker's user id, every same-user maker it
\* skips is left untouched (same quantity, same place in its FIFO, still
\* indexed), and an unfilled GTC residual rests at its limit price even if
\* that leaves the book crossed.
C20_SelfTradePrevention == [][StpStep]_vars

\* a limit order left with a remainder to rest at a tick outside the band of
\* the dense ladder is turned down without touching the ladder
OutOfBandStep ==
  (/\ book.impl = "Array"
   /\ last'.type = "Limit"
   /\ last'.tif = "GTC"
   /\ ~is_valid_price(book, last'.price_ticks)
   /\ TradedQty(events') < last'.qty)
  => /\ book'.fault # "oob"
     /\ \A s \in Sides : DOMAIN book'.lad[s].levels = DOMAIN book.lad[s].levels
     /\ ~Rests(book', last'.order_id)
     /\ find(book'.index, last'.order_id) = -1
     /\ best(book', last'.side) = best(book, last'.side)
     /\ book'.lad[last'.side] = book.lad[last'.side]

\* C21: with the dense ladder, a limit order whose residual would rest at a
\* tick outside the band [min_tick, max_tick] is rejected before any enqueue:
\* no node is linked, no index entry is added, the best prices are unchanged,
\* the trades already executed stand, the residual is discarded, and no
\* level slot out of range is accessed.
C21_OutOfBandRestIsRejected == [][OutOfBandStep]_vars

-----------------------------------------------------------------------------
(* The threads of the process                                               *)

\* FeedHandler::run, the loop body: push the next command, yield when the
\* queue is full
FeedPush ==
  /\ threads.feed = "push"
  /\ pipe.fed < FileCmds
  /\ IF ~ring_full(pipe.input)
       THEN /\ pipe' = [pipe EXCEPT !.fed = @ + 1, !.input = @ + 1,
                                    !.input_queue = Append(@, pipe.fed + 1)]
            /\ UNCHANGED threads
       ELSE /\ threads' = [threads EXCEPT !.feed = "yield"]
            /\ UNCHANGED pipe
  /\ UNCHANGED <<bookvars, ringvars, heap>>

\* FeedHandler::run: back from std::this_thread::yield()
FeedResume ==
  /\ threads.feed = "yield"
  /\ threads' = [threads EXCEPT !.feed = "push"]
  /\ UNCHANGED <<pipe, bookvars, ringvars, heap>>

\* FeedHandler::run: the loop is over, munmap, return
FeedFinish ==
  /\ threads.feed = "push"
  /\ pipe.fed = FileCmds
  /\ threads' = [threads EXCEPT !.feed = "finished"]
  /\ UNCHANGED <<pipe, bookvars, ringvars, heap>>

\* MatchingEngine::run: pop a command and hand it to the book, yield when
\* the input queue is empty
EnginePoll ==
  /\ threads.engine = "poll"
  /\ IF pipe.input > 0
       THEN \E k \in EventCounts, r \in {fifo_pop(pipe.input_queue)} :
              /\ pipe' = [pipe EXCEPT
                            !.input = @ - 1, !.pending = k,
                            !.input_queue = r.rest,
                            !.processed =
                               Append(@, [cmd |-> r.item, events |-> k])]
              /\ threads' = [threads EXCEPT !.engine = "emit"]
       ELSE /\ threads' = [threads EXCEPT !.engine = "yield"]
            /\ UNCHANGED pipe
  /\ UNCHANGED <<bookvars, ringvars, heap>>

\* MatchingEngine::run: back from yield, the loop has no other way out
EngineResume ==
  /\ threads.engine = "yield"
  /\ threads' = [threads EXCEPT !.engine = "poll"]
  /\ UNCHANGED <<pipe, bookvars, ringvars, heap>>

\* process_trade / process_book_update: push the event, yield when the
\* output queue is full; after the last callback the book call returns
EngineEmit ==
  /\ threads.engine = "emit"
  /\ IF pipe.pending = 0
       THEN /\ threads' = [threads EXCEPT !.engine = "poll"]
            /\ UNCHANGED pipe
       ELSE IF ~ring_full(pipe.output)
         THEN /\ pipe' = [pipe EXCEPT
                                !.pending = @ - 1, !.output = @ + 1,
                                !.emitted = @ + 1,
                                !.output_queue = Append(@, NextEvent(pipe))]
              /\ UNCHANGED threads
         ELSE /\ threads' = [threads EXCEPT !.engine = "emit_yield"]
              /\ UNCHANGED pipe
  /\ UNCHANGED <<bookvars, ringvars, heap>>

\* process_trade / process_book_update: back from yield
EngineEmitResume ==
  /\ threads.engine = "emit_yield"
  /\ threads' = [threads EXCEPT !.engine = "emit"]
  /\ UNCHANGED <<pipe, bookvars, ringvars, heap>>

\* Publisher::run: pop an event and write it to its log, yield when no
\* queue held one
PublisherPoll ==
  /\ threads.publisher = "poll"
  /\ IF pipe.output > 0
       THEN \E r \in {fifo_pop(pipe.output_queue)} :
              /\ pipe' = [pipe EXCEPT !.output = @ - 1, !.written = @ + 1,
                                      !.output_queue = r.rest,
                                      !.published = Append(@, r.item)]
              /\ UNCHANGED threads
       ELSE /\ threads' = [threads EXCEPT !.publisher = "yield"]
            /\ UNCHANGED pipe
  /\ UNCHANGED <<bookvars, ringvars, heap>>

\* Publisher::run: back from yield, the loop has no other way out
PublisherResume ==
  /\ threads.publisher = "yield"
  /\ threads' = [threads EXCEPT !.publisher = "poll"]
  /\ UNCHANGED <<pipe, bookvars, ringvars, heap>>

\* the thread main is joining
Joined(main_pc) ==
  CASE main_pc = "join_publisher" -> "publisher"
    [] main_pc = "join_engine" -> "engine"
    [] main_pc = "join_feed" -> "feed"

\* where main goes once that join returns
AfterJoin(main_pc) ==
  CASE main_pc = "join_publisher" -> "join_engine"
    [] main_pc = "join_engine" -> "join_feed"
    [] main_pc = "join_feed" -> "returned"

\* main: for (auto &t : threads) t.join(); then the cleanup and return 0.
\* join returns when the thread has finished and blocks until then.
MainJoin ==
  /\ threads.main # "returned"
  /\ threads' =
       IF threads[Joined(threads.main)] = "finished"
         THEN [threads EXCEPT !.main = AfterJoin(threads.main)]
         ELSE threads
  /\ UNCHANGED <<pipe, bookvars, ringvars, heap>>

NextProcess ==
  \/ FeedPush \/ FeedResume \/ FeedFinish
  \/ EnginePoll \/ EngineResume \/ EngineEmit \/ EngineEmitResume
  \/ PublisherPoll \/ PublisherResume
  \/ MainJoin

InitProcess == InitOf({"core"})

\* the scheduler lets every thread that can take a step take one
ProcessFairness ==
  /\ WF_vars(FeedPush) /\ WF_vars(FeedResume) /\ WF_vars(FeedFinish)
  /\ WF_vars(EnginePoll) /\ WF_vars(EngineResume)
  /\ WF_vars(EngineEmit) /\ WF_vars(EngineEmitResume)
  /\ WF_vars(PublisherPoll) /\ WF_vars(PublisherResume)
  /\ WF_vars(MainJoin)

SpecProcess == InitProcess /\ [][NextProcess]_vars /\ ProcessFairness

-----------------------------------------------------------------------------
(* Replay determinism                                                       *)

\* the timestamp the trades of command cmd carry in such a run
TradeTs(cmd, clock) == IF cmd.type = "Modify" THEN clock ELSE cmd.recv_ts

ReplayStep ==
  \A k \in Skews(scenario) :
    \A r \in {Rerun(book, last', Now + k)} :
       /\ r.res = result'
       /\ r.ev = events'
       /\ StampsOf(r.ev, TradeTs(last', Now + k), Now + k) = stamps'
       /\ best(r.b, "Bid") = best(book', "Bid")
       /\ best(r.b, "Ask") = best(book', "Ask")

\* C22: a second, independent execution of the same command on the same
\* book, whatever its clock reads, returns the same result, emits the same
\* trades and book updates field for field, timestamps included, and leaves
\* the same best bid and best ask.
C22_ReplayDeterminism == [][ReplayStep]_vars

-----------------------------------------------------------------------------
(* Array ladder against tree ladder                                         *)

TwinStep ==
  Paired(scenario) =>
    \A t \in {Rerun(twin, last', last'.recv_ts)} :
       /\ t.res = result'
       /\ t.ev = events'
       /\ best(t.b, "Bid") = best(book', "Bid")
       /\ best(t.b, "Ask") = best(book', "Ask")

\* C23: handed the same command with every tick inside the band, the book on
\* the array ladder and the book on the tree ladder return the same result
\* (ExecResult or bool), emit the same trades and book updates, and show the
\* same best bid and best ask afterwards.
C23_LaddersAgree == [][TwinStep]_vars

\* both ladders have moved their best ask over an empty tick after a trade
\* depleted the best level, and the books still hold orders
C23_Witness ==
  /\ Paired(scenario)
  /\ book.impl = "Array" /\ twin.impl = "AVL"
  /\ Len(Trades(events)) > 0
  /\ last.side = "Bid"
  /\ best(book, "Ask") = 102 /\ best(twin, "Ask") = 102
  /\ 100 \in DOMAIN twin.lad["Ask"].levels

-----------------------------------------------------------------------------
(* SPSC ring: FIFO delivery and bounds                                      *)

IsPrefix(p, q) == Len(p) <= Len(q) /\ \A i \in 1..Len(p) : p[i] = q[i]

\* the slots that hold an item not yet popped
UnreadSlots(q) == {Masked(q.head + i) : i \in 0..(size(q) - 1)}

WriteStep ==
  queue'.buffer # queue.buffer =>
    \A i \in UnreadSlots(queue) : queue'.buffer[i] = queue.buffer[i]

\* C24: under every interleaving of the steps of push and pop, the items
\* popped so far are, in order, the first items pushed (nothing is lost,
\* duplicated or reordered), and whenever the producer writes into buffer_
\* every slot that holds an unread item keeps its content.
C24_SpscFifo == [](IsPrefix(popped, pushed)) /\ [][WriteStep]_vars

\* the ring has wrapped: as many items as it has slots were popped in order,
\* and the consumer is copying the next one out while the producer is in the
\* middle of another push
C24_Witness ==
  /\ Len(popped) >= RingN
  /\ producer.pc = "store"
  /\ consumer.pc = "read"
  /\ size(queue) > 0

\* the step of push that decides: false, with nothing changed, exactly when
\* the ring holds N - 1 items
PushDecides ==
  (producer.pc = "check" /\ producer'.pc # "check") =>
    /\ (producer'.pc = "idle" /\ producer'.ret = "false")
         <=> size(queue) = capacity
    /\ size(queue) # capacity => producer'.pc = "write"
    /\ queue' = queue /\ pushed' = pushed

\* the step of push that returns true: the item is stored behind the others
PushReturnsTrue ==
  (producer.pc = "store" /\ producer'.pc # "store") =>
    /\ producer'.ret = "true"
    /\ queue.buffer[queue.tail] = producer.item
    /\ size(queue') = size(queue) + 1
    /\ pushed' = Append(pushed, producer.item)

\* the step of pop that decides: false exactly when the ring is empty
PopDecides ==
  (consumer.pc = "check" /\ consumer'.pc # "check") =>
    /\ (consumer'.pc = "idle" /\ consumer'.ret = "false")
         <=> Len(pushed) = Len(popped)
    /\ Len(pushed) # Len(popped) => consumer'.pc = "read"
    /\ queue' = queue /\ popped' = popped

\* the step of pop that returns true: it hands out the oldest unpopped item
PopReturnsTrue ==
  (consumer.pc = "store" /\ consumer'.pc # "store") =>
    /\ consumer'.ret = "true"
    /\ Len(pushed) > Len(popped)
    /\ consumer'.item = pushed[Len(popped) + 1]
    /\ popped' = Append(popped, consumer'.item)
    /\ size(queue') = size(queue) - 1

\* a call of empty()
EmptyAnswers ==
  consumer'.is_empty # consumer.is_empty =>
    consumer'.is_empty = Answer(Len(pushed) = Len(popped))

\* C25: push returns false and changes nothing exactly when the ring holds
\* N - 1 items and otherwise stores the item and returns true; pop returns
\* false exactly when no pushed item is unpopped and otherwise returns the
\* oldest such item; empty() is true exactly when no pushed item is unpopped.
C25_SpscBounds ==
  [][/\ PushDecides /\ PushReturnsTrue /\ PopDecides /\ PopReturnsTrue
     /\ EmptyAnswers]_vars

\* a push has just been refused on a ring holding N - 1 items, after pops
\* have handed items out and empty() has answered false
C25_Witness ==
  /\ producer.pc = "idle" /\ producer.ret = "false"
  /\ size(queue) = capacity
  /\ Len(popped) > 0
  /\ consumer.ret = "true"
  /\ consumer.is_empty = "false"

-----------------------------------------------------------------------------
(* Iceberg and stop orders                                                  *)

HasFlag(flags, bit) == ((flags \div bit) % 2) = 1

\* the command is an iceberg or a stop order
Advanced(cmd) ==
  /\ cmd.type \in {"Limit", "Market", "StopLimit", "StopMarket"}
  /\ \/ HasFlag(cmd.flags, ICEBERG)
     \/ HasFlag(cmd.flags, STOP)
     \/ cmd.type \in {"StopLimit", "StopMarket"}

\* the command is a stop order
IsStop(cmd) ==
  HasFlag(cmd.flags, STOP) \/ cmd.type \in {"StopLimit", "StopMarket"}

AdvancedStep ==
  Advanced(last') =>
    \* rested in the book with all of its open quantity in the level, as a
    \* plain limit order is
    /\ ~(/\ Rests(book', last'.order_id)
         /\ OpenQty(book', last'.order_id) = last'.qty - TradedQty(events'))
    \* a stop order below its trigger trades nothing on arrival
    /\ IsStop(last') => TradedQty(events') = 0

\* C26: an order with the ICEBERG or STOP flag or with a stop order type is
\* never rested in the book as a plain limit order showing all of its open
\* quantity, and a stop order whose stop price has not been reached does not
\* trade on arrival.
C26_AdvancedOrdersNotSilentlyPlain == [][AdvancedStep]_vars

-----------------------------------------------------------------------------
(* What a BookUpdate reports                                                *)

\* the open quantity at the best level of side s, 0 for a side that holds
\* no order
BestQty(b, s, px) ==
  IF px = SentinelOf(s) THEN 0 ELSE Level(b, s, px).total_qty

\* the top of the book as its level FIFOs hold it
TopOfBook(b) ==
  [type |-> "BookUpdate",
   best_bid |-> HighestBid(b), best_ask |-> LowestAsk(b),
   bid_qty |-> BestQty(b, "Bid", HighestBid(b)),
   ask_qty |-> BestQty(b, "Ask", LowestAsk(b))]

\* the last callback of a command that publishes a book update is that
\* update, and nothing touches the book after it
ReportStep ==
  (/\ book'.fault = "none"
   /\ BookUpdates(events') # <<>>)
  => events'[Len(events')] = TopOfBook(book')

\* C27: the book update a command ends with reports the book as it is then:
\* best_bid and best_ask are the best prices at which orders rest, bid_qty
\* and ask_qty the total_qty of those levels, and a side without orders
\* shows its sentinel tick with quantity 0.
C27_BookUpdateReportsTheBook == [][ReportStep]_vars

-----------------------------------------------------------------------------
(* Termination of the process                                               *)

\* the feed handler has delivered every command of the file, the engine has
\* processed them all and the publisher has written every event
Delivered ==
  /\ pipe.fed = FileCmds
  /\ pipe.input = 0
  /\ pipe.pending = 0 /\ threads.engine \in {"poll", "yield"}
  /\ pipe.output = 0
  /\ pipe.written = pipe.emitted

\* every thread has finished and main has returned
Returned ==
  /\ threads.feed = "finished"
  /\ threads.engine = "finished"
  /\ threads.publisher = "finished"
  /\ threads.main = "returned"

\* C28: once every command of the input file has been delivered and
\* processed and every event written, all threads finish and main returns.
C28_ProcessTerminates == Delivered ~> Returned

-----------------------------------------------------------------------------
(* What self-trade prevention leaves reachable                              *)

\* the user of the order resting under id in book b
UserOf(b, id) ==
  b.nodes[(CHOOSE r \in RestingAt(b) : IdOf(b, r) = id).node].user

\* the makers of another user among the makers the trades ev were made with
OtherUserMakers(b, ev, user) ==
  {Trades(ev)[i].maker_id : i \in 1..Len(Trades(ev))} \cap
    {id \in {IdOf(b, r) : r \in RestingAt(b)} : UserOf(b, id) # user}

StpReachStep ==
  (/\ last'.type \in {"Limit", "Market"}
   /\ HasSTP(last'.flags))
  => \A plain \in {Rerun(book, [last' EXCEPT !.flags = 0], last'.recv_ts)} :
       OtherUserMakers(book, plain.ev, last'.user_id)
         \subseteq OtherUserMakers(book, events', last'.user_id)

\* C29: a taker with the STP flag trades with every maker of another user
\* that the same order without the flag would have traded with: skipping its
\* own orders never ends the matching while quantity remains and other
\* users' orders cross, in the same level or in further levels.
C29_StpReachesOtherUsers == [][StpReachStep]_vars

-----------------------------------------------------------------------------
(* The tree ladder after its best level is depleted                         *)

\* the best tick at which an order of side s rests
ExtremeResting(b, s) == IF s = "Bid" THEN HighestBid(b) ELSE LowestAsk(b)

\* the command met a side whose best level held orders and left that level
\* without any
BestDepleted(s) ==
  /\ best(book, s) # SentinelOf(s)
  /\ best(book, s) = ExtremeResting(book, s)
  /\ RestingView(book', s, best(book, s)) = <<>>

SparseRefreshStep ==
  \A s \in Sides :
    (/\ book.impl = "AVL"
     /\ last'.type \in {"Limit", "Market", "Cancel"}
     /\ BestDepleted(s))
    => best(book', s) = ExtremeResting(book', s)

\* C30: on the tree ladder, when a fill or a cancel takes the last order out
\* of the best level of a side, the new best price of that side is the
\* nearest tick at which an order still rests, however far away, and the
\* sentinel only when no order rests on that side.
C30_SparseRefreshFindsNearest == [][SparseRefreshStep]_vars

-----------------------------------------------------------------------------
(* The order index as a map                                                 *)

\* the keys a table stores, and the value a lookup of one of them yields
StoredKeys(m) == {m.entries[i].key : i \in DOMAIN m.entries}

Lookup(m, k) == IF find(m, k) = -1 THEN "absent" ELSE m.entries[find(m, k)].value

\* erasing key k from table m removes k and nothing else
ErasesOnly(m, k) ==
  \A after \in {erase_key(m, k)} :
    /\ find(after, k) = -1
    /\ \A j \in StoredKeys(m) \ {k} :
         /\ find(after, j) # -1
         /\ Lookup(after, j) = Lookup(m, j)

\* C31: the order index behaves as a map: in every index the book reaches,
\* each stored key is found with its value, and erasing any one stored key
\* leaves that key absent and every other stored key findable with the
\* value it had, also when the probe chain wraps around the table's end.
C31_IndexBehavesAsMap ==
  \A k \in StoredKeys(book.index) :
    /\ find(book.index, k) # -1
    /\ ErasesOnly(book.index, k)

-----------------------------------------------------------------------------
(* The slab pool driven on its own, as tests/test_mempool.cpp drives it:    *)
(* any interleaving of alloc and of free on an object currently held.       *)

\* objs.push_back(pool.alloc())
PoolAlloc ==
  /\ heap.allocs < MaxAllocs
  /\ \E r \in {pool_alloc(heap.pool)} :
       heap' = [pool |-> r.pool, live |-> heap.live \cup {r.ptr},
                op |-> "alloc", ptr |-> r.ptr,
                allocs |-> heap.allocs + 1, frees |-> heap.frees]
  /\ UNCHANGED <<bookvars, ringvars, procvars>>

\* pool.free(obj) for an obj of objs
PoolFree ==
  /\ \E obj \in heap.live :
       heap' = [pool |-> pool_free(heap.pool, obj), live |-> heap.live \ {obj},
                op |-> "free", ptr |-> obj,
                allocs |-> heap.allocs, frees |-> heap.frees + 1]
  /\ UNCHANGED <<bookvars, ringvars, procvars>>

NextPool == PoolAlloc \/ PoolFree

InitPool == InitOf({"core"})

SpecPool == InitPool /\ [][NextPool]_vars

\* what one call on the pool may do
PoolStep ==
  /\ heap'.pool.in_use = heap'.allocs - heap'.frees
  /\ heap'.pool.in_use = Cardinality(heap'.live)
  /\ heap'.pool.capacity >= heap.pool.capacity
  /\ heap'.pool.num_slabs > heap.pool.num_slabs
       => heap'.op = "alloc" /\ heap.pool.in_use = heap.pool.capacity
  /\ heap'.op = "alloc" /\ heap' # heap =>
       /\ heap'.ptr \notin heap.live
       /\ heap'.ptr # NullNode
       /\ heap.op = "free" => heap'.ptr = heap.ptr

\* C32: the slab pool never hands out a live object twice: over every
\* sequence of alloc and of free on held objects, alloc returns an address
\* not currently held, in_use() equals allocations minus frees (and the
\* number of held objects), an alloc right after a free returns the object
\* just freed, a slab is added only by an alloc that finds every object of
\* the pool in use, and capacity never decreases.
C32_PoolNeverHandsOutLive == [][PoolStep]_vars

\* an alloc has just returned a released object again, after the pool grew
\* by a slab, while other objects are held and another released one waits
C32_Witness ==
  /\ heap.op = "alloc"
  /\ heap.pool.num_slabs > PoolSlabs
  /\ heap.frees >= 2
  /\ heap.pool.recycled # <<>>
  /\ Cardinality(heap.live) >= 2

-----------------------------------------------------------------------------
(* Order of commands and events through the pipeline                        *)

\* the events emitted so far, in the order the publisher pops them
EventOrder == pipe.published \o pipe.output_queue

\* the events of EventOrder that command c produced
EventsOf(c) == {i \in DOMAIN EventOrder : EventOrder[i].cmd = c}

\* C33: the engine pops the commands in the order the feed handler pushed
\* them (file order), a command's callbacks are all made before the next
\* command is popped, and the events reach the output queue and the
\* publisher in emission order: ranks ascending within a command, every
\* event of command N before any event of command N+1.
C33_PipelineOrder ==
  /\ \A i \in DOMAIN pipe.processed : pipe.processed[i].cmd = i
  /\ \A i \in DOMAIN pipe.input_queue :
       pipe.input_queue[i] = Len(pipe.processed) + i
  /\ \A i \in DOMAIN pipe.processed :
       Cardinality(EventsOf(i)) =
         IF i < Len(pipe.processed) THEN pipe.processed[i].events
         ELSE pipe.processed[i].events - pipe.pending
  /\ \A i, j \in DOMAIN EventOrder :
       i < j => \/ EventOrder[i].cmd < EventOrder[j].cmd
                \/ /\ EventOrder[i].cmd = EventOrder[j].cmd
                   /\ EventOrder[i].rank < EventOrder[j].rank

\* the publisher has popped the two events of one command and an event of a
\* later command while the engine still holds or queues more
C33_Witness ==
  /\ Len(pipe.processed) = FileCmds
  /\ \E i, j, k \in DOMAIN pipe.published :
       /\ i < j /\ j < k
       /\ pipe.published[i].cmd = pipe.published[j].cmd
       /\ pipe.published[j].cmd < pipe.published[k].cmd
  /\ pipe.output_queue # <<>>

-----------------------------------------------------------------------------
(* Progress of the pipeline                                                 *)

\* every command of the file has been pushed, popped and processed, and
\* every event it produced has been popped by the publisher
AllThrough ==
  /\ Len(pipe.processed) = FileCmds
  /\ pipe.input_queue = <<>>
  /\ pipe.pending = 0
  /\ pipe.output_queue = <<>>
  /\ Len(pipe.published) = pipe.emitted

\* C34: under fair scheduling of the feed, engine and publisher threads the
\* pipeline reaches, and then stays in, the condition where every command of
\* the input file has been pushed to the input queue and processed and every
\* emitted event has been popped by the publisher; no busy-wait on a full or
\* empty queue blocks for ever.
C34_PipelineProgress == <>[]AllThrough

\* everything went through although the output queue had to be drained more
\* than once to take all the events
C34_Witness ==
  /\ AllThrough
  /\ pipe.emitted > 2 * QueueCap
  /\ threads.engine = "yield" /\ threads.publisher = "yield"

-----------------------------------------------------------------------------
(* The cached best level                                                    *)

\* on side s the cached reference is null exactly when the cached best tick
\* is the sentinel, and otherwise designates the level at that tick, which
\* holds an order
BestCacheAgrees(b, s) ==
  /\ best_level_ptr(b, s) = NullLevel <=> best(b, s) = SentinelOf(s)
  /\ best(b, s) # SentinelOf(s) =>
       /\ best_level_ptr(b, s) = <<best(b, s)>>
       /\ best(b, s) \in DOMAIN b.lad[s].levels
       /\ ~level_empty(Level(b, s, best(b, s)))

\* C35: after every command, on each side best_level_ptr is null iff the
\* best tick is the sentinel, otherwise it refers to the level at the best
\* tick, and that level is non-empty.
C35_BestCacheAgrees ==
  book.fault = "none" => \A s \in Sides : BestCacheAgrees(book, s)

\* a cancel has just emptied a level of the tree ladder, the side's best is
\* cached at another tick, and the other side is empty with a null reference
C35_Witness ==
  /\ last.type = "Cancel" /\ result = TRUE
  /\ book.impl = "AVL" /\ book.fault = "none"
  /\ \E s \in Sides :
       /\ best(book, s) # SentinelOf(s)
       /\ best_level_ptr(book, s) = <<best(book, s)>>
       /\ \E px \in DOMAIN book.lad[s].levels :
            px # best(book, s) /\ level_empty(Level(book, s, px))
       /\ best_level_ptr(book, Opposite(s)) = NullLevel

-----------------------------------------------------------------------------
(* What a cancel away from the best price leaves alone                      *)

\* a successful cancel of an order resting at a tick other than its side's
\* best leaves both best prices as they were
CancelFrameStep ==
  (last'.type = "Cancel" /\ result' = TRUE /\ ncmds' = ncmds + 1) =>
    \A r \in {x \in RestingAt(book) : IdOf(book, x) = last'.order_id} :
      r.price # best(book, r.side) =>
        /\ best(book', "Bid") = best(book, "Bid")
        /\ best(book', "Ask") = best(book, "Ask")

\* C36: cancelling an order that does not rest at the best price of its side
\* leaves best_bid and best_ask unchanged, also when the cancel empties the
\* order's level.
C36_CancelAwayFromBestKeepsBest == [][CancelFrameStep]_vars

-----------------------------------------------------------------------------
(* Positive quantities                                                      *)

\* C37: quantities stay positive: after every command of a sequence of new
\* orders with quantity > 0, cancels and modifies with a new quantity >= 0,
\* every resting node has qty > 0 and every trade the command emitted has
\* qty > 0.
C37_QuantitiesStayPositive ==
  book.fault = "none" =>
    /\ \A r \in RestingAt(book) : book.nodes[r.node].qty > 0
    /\ \A i \in DOMAIN Trades(events) : Trades(events)[i].qty > 0

-----------------------------------------------------------------------------
(* Accounting of one GTC limit order                                        *)

\* total open quantity resting on side s
SideQty(b, s) == SumQty(b, {r \in RestingAt(b) : r.side = s})

\* what a GTC limit order with a fresh id reports and what it does to the
\* resting quantity of the two sides
AccountingStep ==
  (last'.type = "Limit" /\ last'.tif = "GTC" /\ ncmds' = ncmds + 1) =>
    /\ result'.filled = TradedQty(events')
    /\ result'.filled =
         SideQty(book, Opposite(last'.side)) - SideQty(book', Opposite(last'.side))
    /\ result'.filled + result'.remaining = last'.qty
    /\ SideQty(book', last'.side) = SideQty(book, last'.side) + result'.remaining

\* C38: for a GTC limit order with a fresh id, result.filled equals the sum
\* of the quantities of the trades it emitted and the decrease of the total
\* resting quantity on the opposite side, filled + remaining equals the
\* order's quantity, and the total resting quantity on its own side grows by
\* exactly result.remaining.
C38_LimitOrderAccounting == [][AccountingStep]_vars

-----------------------------------------------------------------------------
(* Allocation of order nodes                                                *)

\* the nodes the order pool has handed out and not got back
Allocated(b) == DOMAIN b.nodes

\* C39: no node leaks and none is used after release: after every command,
\* the number of nodes allocated from the order pool (in_use) equals the
\* number of resting orders and the number of index entries, every linked
\* node is an allocated one, and every index entry refers to an allocated
\* node.
C39_NoLeakNoUseAfterFree ==
  book.fault = "none" =>
    /\ book.pool.in_use = Cardinality(RestingAt(book))
    /\ book.pool.in_use = Cardinality(DOMAIN book.index.entries)
    /\ \A r \in RestingAt(book) : r.node \in Allocated(book)
    /\ \A i \in DOMAIN book.index.entries :
         book.index.entries[i].value.node \in Allocated(book)

====
